---- MODULE Spec2Model ----
(***************************************************************************)
(* Multi-signal authenticity and risk scoring engine of the Sinhala        *)
(* depression-monitoring backend.                                          *)
(*                                                                         *)
(* Scores, ratios and probabilities are Python floats in the source; here   *)
(* they are fixed-point integers in thousandths (0.7 is 700), so sums and   *)
(* comparisons are exact.  Optional[float] is a sequence of length 0       *)
(* (None) or 1.  A token is the sequence of its characters.                *)
(*                                                                         *)
(* Spec      calls of the stateless scoring functions (variable call)      *)
(* SpecTwin  the per-user document store and the digital-twin routes       *)
(* SpecPhq9  one PHQ-9 questionnaire session and the requests on it        *)
(* SpecBatch concurrent typing-analysis requests and the batch checkpoints *)
(***************************************************************************)
EXTENDS Integers, Sequences, FiniteSets, TLC

VARIABLES
    call,             \* the last scoring-function call: [op, args, result]
    sessions,         \* collection 'sessions' of the user
    typing_analyses,  \* collection 'typing_analyses' of the user
    voice_analyses,   \* collection 'voice_analyses' of the user
    mood_checkins,    \* collection 'mood_checkins' of the user
    digital_twin,     \* document digital_twins/<user>: None or <<doc>>
    now,              \* wall clock, in days
    resp,             \* response of the last route executed
    phq9_session,     \* the user's PHQ-9 session document: None or <<doc>>
    alerts,           \* collection 'alerts': the alerts created, in order
    requests          \* analyze requests of SpecBatch: position, locals and response

vars == <<call, sessions, typing_analyses, voice_analyses, mood_checkins,
          digital_twin, now, resp, phq9_session, alerts, requests>>

callVars == <<call>>

twinVars == <<sessions, typing_analyses, voice_analyses, mood_checkins,
              digital_twin, now, resp, phq9_session, alerts, requests>>

(***************************************************************************)
(* Generic helpers                                                         *)
(***************************************************************************)
None == <<>>

Some(x) == <<x>>

IsNone(o) == o = None

Val(o) == o[1]

Min(a, b) == IF a < b THEN a ELSE b

Max(a, b) == IF a > b THEN a ELSE b

Range(s) == {s[i] : i \in DOMAIN s}

EmptyMap == [k \in {} |-> 0]

Put(m, k, v) == [x \in (DOMAIN m) \cup {k} |-> IF x = k THEN v ELSE m[x]]

RECURSIVE SumMap(_, _)
SumMap(m, keys) ==
    IF keys = {} THEN 0
    ELSE LET k == CHOOSE x \in keys : TRUE
         IN  m[k] + SumMap(m, keys \ {k})

(***************************************************************************)
(* Bounds of the model                                                     *)
(***************************************************************************)
MaxWordCount == 3        \* joke / abuse counts of drawn TextFeatures: 0..MaxWordCount

MaxTranscriptLen == 3    \* drawn raw transcripts have at most this many characters

MaxStdSteps == 40        \* drawn standard deviations: 0..MaxStdSteps steps of 0.01

MaxDrawnSessions == 6    \* drawn session histories have at most this many sessions

MaxDrawnMoods == 3       \* drawn mood histories have at most this many check-ins

MaxMoodCount == 7        \* counted mood histories: 0..MaxMoodCount negative, and other, check-ins in the window

MaxOldMoods == 2         \* counted mood histories: 0..MaxOldMoods negative, and other, check-ins older than the window

MaxTrendSessions == 7    \* drawn scored session histories have at most this many sessions

MaxAnswerRequests == 3   \* SpecPhq9Concurrent: /phq9/answer requests submitted

MaxChatSessions == 1     \* SpecPhq9: chat sessions created by crisis messages

MaxAlerts == 2           \* SpecPhq9, SpecBatch: requests are taken while fewer alerts than this exist

MaxBatchRequests == 3    \* SpecBatch: analyze requests of the user

MaxEarlierAnalyses == 3  \* SpecBatch: typing analyses recorded before them

MaxConcurrent == 2       \* SpecBatch: analyze requests handled at the same time

MaxSessions == 2         \* SpecTwin: sessions the user creates

MaxAnalyses == 1         \* SpecTwin: typing analyses, and voice analyses, recorded

MaxMoods == 2            \* SpecTwin: mood check-ins recorded

MaxDay == 32             \* SpecTwin: the clock stops here

(***************************************************************************)
(* algorithm.py : characters, tokens and word lists                        *)
(***************************************************************************)
Letters == {"a", "b", "c", "d", "e", "f", "g", "h", "i", "j", "k", "l", "m",
            "n", "o", "p", "q", "r", "s", "t", "u", "v", "w", "x", "y", "z"}

Digits == {"0", "1", "2", "3"}

UpperCase == {"L", "O"}

\* str.lower() on one character
Lower(c) == IF c = "L" THEN "l" ELSE IF c = "O" THEN "o" ELSE c

\* the regular expression class \w after lower-casing
IsWordChar(c) == c \in Letters \cup Digits \cup {"_"}

\* str.isalpha() on one character
IsAlpha(c) == c \in Letters

TokPrank == <<"p", "r", "a", "n", "k">>

TokJoke == <<"j", "o", "k", "e">>

TokJustKidding == <<"j", "u", "s", "t", "k", "i", "d", "d", "i", "n", "g">>

TokLol == <<"l", "o", "l">>

TokLmao == <<"l", "m", "a", "o">>

TokForFun == <<"f", "o", "r", "f", "u", "n">>

TokIdiot == <<"i", "d", "i", "o", "t">>

TokStupid == <<"s", "t", "u", "p", "i", "d">>

TokFool == <<"f", "o", "o", "l">>

TokBitch == <<"b", "i", "t", "c", "h">>

TokFuck == <<"f", "u", "c", "k">>

TokRepeat == <<"a", "a", "a", "a">>

TokDigits == <<"a", "1", "2", "3">>

joke_words == {TokPrank, TokJoke, TokJustKidding, TokLol, TokLmao, TokForFun}

abuse_words == {TokIdiot, TokStupid, TokFool, TokBitch, TokFuck}

high_depression_threshold == 700

(***************************************************************************)
(* algorithm.py : _tokenize and extract_text_features                      *)
(***************************************************************************)
\* re.findall(r"\w+", text.lower()): the maximal runs of word characters
RECURSIVE TokenizeFrom(_, _, _, _)
TokenizeFrom(text, i, cur, acc) ==
    IF i > Len(text)
    THEN IF cur = <<>> THEN acc ELSE Append(acc, cur)
    ELSE LET c == Lower(text[i])
         IN  IF IsWordChar(c)
             THEN TokenizeFrom(text, i + 1, Append(cur, c), acc)
             ELSE TokenizeFrom(text, i + 1, <<>>,
                               IF cur = <<>> THEN acc ELSE Append(acc, cur))

Tokenize(text) == TokenizeFrom(text, 1, <<>>, <<>>)

\* sum(c.isalpha() for c in t)
AlphaChars(t) == Cardinality({i \in DOMAIN t : IsAlpha(t[i])})

\* re.search(r"(.)\1\1\1", t): four equal characters in a row
HasLongRepeat(t) ==
    \E i \in 1..(Len(t) - 3) :
        /\ t[i] = t[i + 1]
        /\ t[i] = t[i + 2]
        /\ t[i] = t[i + 3]

\* len(t) > 20 or alpha_chars / len(t) < 0.5 or has_long_repeat
IsNonsense(t) ==
    \/ Len(t) > 20
    \/ 2 * AlphaChars(t) < Len(t)
    \/ HasLongRepeat(t)

\* number of positions of tokens whose token satisfies P
CountWhere(tokens, P(_)) == Cardinality({i \in DOMAIN tokens : P(tokens[i])})

IsJokeWord(t) == t \in joke_words

IsAbuseWord(t) == t \in abuse_words

\* a ratio k / n in thousandths
Ratio(k, n) == (k * 1000) \div n

\* extract_text_features whose nonsense_ratio counts each nonsense word once
ExtractTextFeaturesDistinctNonsense(transcript) ==
    LET tokens == Tokenize(transcript)
    IN  IF tokens = <<>>
        THEN [token_count |-> 0, nonsense_ratio |-> 1000,
              unique_word_ratio |-> 0,
              joke_word_count |-> 0, abuse_word_count |-> 0,
              suspicious_words |-> {}, nonsense_words |-> {},
              joke_words_found |-> {}, abuse_words_found |-> {}]
        ELSE [token_count |-> Len(tokens),
              nonsense_ratio |->
                  Ratio(Cardinality({t \in Range(tokens) : IsNonsense(t)}),
                        Len(tokens)),
              unique_word_ratio |-> Ratio(Cardinality(Range(tokens)), Len(tokens)),
              joke_word_count |-> CountWhere(tokens, IsJokeWord),
              abuse_word_count |-> CountWhere(tokens, IsAbuseWord),
              suspicious_words |->
                  {t \in Range(tokens) :
                      IsNonsense(t) \/ IsJokeWord(t) \/ IsAbuseWord(t)},
              nonsense_words |-> {t \in Range(tokens) : IsNonsense(t)},
              joke_words_found |-> {t \in Range(tokens) : IsJokeWord(t)},
              abuse_words_found |-> {t \in Range(tokens) : IsAbuseWord(t)}]

ExtractTextFeatures(transcript) ==
    LET tokens == Tokenize(transcript)
        token_count == Len(tokens)
    IN  IF token_count = 0
        THEN [token_count |-> 0, nonsense_ratio |-> 1000,
              unique_word_ratio |-> 0,
              joke_word_count |-> 0, abuse_word_count |-> 0,
              suspicious_words |-> {}, nonsense_words |-> {},
              joke_words_found |-> {}, abuse_words_found |-> {}]
        ELSE LET nonsense_words == {t \in Range(tokens) : IsNonsense(t)}
                 joke_words_found == {t \in Range(tokens) : IsJokeWord(t)}
                 abuse_words_found == {t \in Range(tokens) : IsAbuseWord(t)}
             IN  [token_count |-> token_count,
                  nonsense_ratio |->
                      Ratio(CountWhere(tokens, IsNonsense), token_count),
                  unique_word_ratio |->
                      Ratio(Cardinality(Range(tokens)), token_count),
                  joke_word_count |-> CountWhere(tokens, IsJokeWord),
                  abuse_word_count |-> CountWhere(tokens, IsAbuseWord),
                  suspicious_words |->
                      nonsense_words \cup joke_words_found \cup abuse_words_found,
                  nonsense_words |-> nonsense_words,
                  joke_words_found |-> joke_words_found,
                  abuse_words_found |-> abuse_words_found]

make_behavior_features(call_duration_sec, repeat_call_count_last_hour) ==
    [call_duration_sec |-> call_duration_sec,
     repeat_call_count_last_hour |-> repeat_call_count_last_hour]

(***************************************************************************)
(* algorithm.py : combine_scores                                           *)
(* The running state of the function is [score, wc, sus]: fake_score,      *)
(* word_contributions and suspicious_words_list (as a set: the list is     *)
(* deduplicated with set() before it is returned).                         *)
(***************************************************************************)
\* 0.2 * min(1.0, nonsense_ratio / 0.4)
NonsenseBoost(tf) == (200 * Min(1000, (tf.nonsense_ratio * 1000) \div 400)) \div 1000

\* fake_score = float(p_fake_model); word_contributions["base_model_score"]
BaseStep(p_fake_model) ==
    [score |-> p_fake_model,
     wc |-> Put(EmptyMap, "base_model_score", p_fake_model),
     sus |-> {}]

\* 1) boost for nonsense when depression is low or not provided
NonsenseStep(st, tf, depression_score) ==
    IF IsNone(depression_score) \/ Val(depression_score) < 300
    THEN IF NonsenseBoost(tf) > 0
         THEN [score |-> st.score + NonsenseBoost(tf),
               wc |-> Put(st.wc, "nonsense_patterns", NonsenseBoost(tf)),
               sus |-> st.sus \cup tf.nonsense_words]
         ELSE st
    ELSE st

\* 2) many tokens but very low vocabulary richness
LowRichnessStep(st, tf) ==
    IF tf.token_count > 20 /\ tf.unique_word_ratio < 300
    THEN [st EXCEPT !.score = @ + 100,
                    !.wc = Put(@, "low_vocabulary_richness", 100)]
    ELSE st

\* 3) jokes
JokeStep(st, tf) ==
    IF tf.joke_word_count >= 3
    THEN [score |-> st.score + 100,
          wc |-> Put(st.wc, "joke_words", 100),
          sus |-> st.sus \cup tf.joke_words_found]
    ELSE IF tf.joke_word_count > 0
         THEN [st EXCEPT !.sus = @ \cup tf.joke_words_found]
         ELSE st

\* variant: the abuse bonus is the joke bonus
AbuseStepJokeBonus(st, tf) ==
    IF tf.abuse_word_count >= 3
    THEN [score |-> st.score + 100,
          wc |-> Put(st.wc, "abuse_words", 100),
          sus |-> st.sus \cup tf.abuse_words_found]
    ELSE IF tf.abuse_word_count > 0
         THEN [st EXCEPT !.sus = @ \cup tf.abuse_words_found]
         ELSE st

\* 3) abuse
AbuseStep(st, tf) ==
    IF tf.abuse_word_count >= 3
    THEN [score |-> st.score + 150,
          wc |-> Put(st.wc, "abuse_words", 150),
          sus |-> st.sus \cup tf.abuse_words_found]
    ELSE IF tf.abuse_word_count > 0
         THEN [st EXCEPT !.sus = @ \cup tf.abuse_words_found]
         ELSE st

\* 4) short, repeated calls from the same number
BehaviorStep(st, bf) ==
    IF bf.call_duration_sec < 15 /\ bf.repeat_call_count_last_hour >= 3
    THEN [st EXCEPT !.score = @ + 200,
                    !.wc = Put(@, "suspicious_behavior", 200)]
    ELSE st

\* variant: the override compares with > instead of >=
SafetyStepStrict(st, depression_score) ==
    IF ~IsNone(depression_score) /\ Val(depression_score) > high_depression_threshold
    THEN LET capped == Min(st.score, 300)
             adjustment == capped - st.score
         IN  [st EXCEPT !.score = capped,
                        !.wc = IF adjustment < 0
                               THEN Put(@, "depression_safety_adjustment", adjustment)
                               ELSE @]
    ELSE st

\* variant: the override caps the score without recording the adjustment
SafetyStepUnrecorded(st, depression_score) ==
    IF ~IsNone(depression_score) /\ Val(depression_score) >= high_depression_threshold
    THEN [st EXCEPT !.score = Min(st.score, 300)]
    ELSE st

\* 5) safety: if depression is high, never mark as high fake risk
SafetyStep(st, depression_score) ==
    IF ~IsNone(depression_score) /\ Val(depression_score) >= high_depression_threshold
    THEN LET capped == Min(st.score, 300)
             adjustment == capped - st.score
         IN  [st EXCEPT !.score = capped,
                        !.wc = IF adjustment < 0
                               THEN Put(@, "depression_safety_adjustment", adjustment)
                               ELSE @]
    ELSE st

\* variant: only the lower bound is enforced
ClampLowerOnly(x) == Max(0, x)

\* fake_score = max(0.0, min(1.0, fake_score))
Clamp(x) == Max(0, Min(1000, x))

\* variant: the breakpoints are exclusive
RiskLabelStrict(fake_score) ==
    IF fake_score > 700 THEN "high_fake_risk"
    ELSE IF fake_score > 400 THEN "medium_fake_risk"
    ELSE "low_fake_risk"

\* map to label
RiskLabel(fake_score) ==
    IF fake_score >= 700 THEN "high_fake_risk"
    ELSE IF fake_score >= 400 THEN "medium_fake_risk"
    ELSE "low_fake_risk"

\* map to suggested action
RiskAction(fake_score) ==
    IF fake_score >= 700 THEN "flag_for_staff_review_low_priority"
    ELSE IF fake_score >= 400 THEN "show_fake_warning_but_treat_as_normal"
    ELSE "treat_as_normal"

CombineScores(p_fake_model, tf, bf, depression_score) ==
    LET s0 == BaseStep(p_fake_model)
        s1 == NonsenseStep(s0, tf, depression_score)
        s2 == LowRichnessStep(s1, tf)
        s3 == JokeStep(s2, tf)
        s4 == AbuseStep(s3, tf)
        s5 == BehaviorStep(s4, bf)
        s6 == SafetyStep(s5, depression_score)
        fake_score == Clamp(s6.score)
    IN  [fake_score |-> fake_score,
         risk_label |-> RiskLabel(fake_score),
         action |-> RiskAction(fake_score),
         text_features |-> tf,
         behavior_features |-> bf,
         suspicious_words |-> s6.sus,
         word_contributions |-> s6.wc]

analyze_call(transcript, p_fake_model, duration, repeats, depression_score) ==
    CombineScores(p_fake_model,
                  ExtractTextFeatures(transcript),
                  make_behavior_features(duration, repeats),
                  depression_score)

(***************************************************************************)
(* call_bot_detection.py : the six per-signal consistency analyses         *)
(* numpy's mean and standard deviation of a signal are inputs, in          *)
(* millionths (the 1e-6 the source adds to a mean is 1); a coefficient of  *)
(* variation and a bot_score are in thousandths.                           *)
(***************************************************************************)
pitch_consistency_threshold == 150

energy_flatness_threshold == 100

spectral_centroid_threshold == 120

zero_crossing_threshold == 80

\* std / mean if mean > 0 else 0
CvGuarded(std, mean) == IF mean > 0 THEN (std * 1000) \div mean ELSE 0

\* std / (mean + 1e-6)
CvEps(std, mean) == (std * 1000) \div (mean + 1)

\* 1.0 - cv / threshold below the threshold, max(0.0, residual - (cv - threshold) * 2) above
ConsistencyScore(cv, threshold, residual) ==
    IF cv < threshold
    THEN 1000 - (cv * 1000) \div threshold
    ELSE Max(0, residual - (cv - threshold) * 2)

\* float(min(1.0, max(0.0, bot_score)))
ClampBotScore(bot_score) == Min(1000, Max(0, bot_score))

AnalyzePitchConsistency(n, mean, std) ==
    IF n < 2
    THEN [bot_score |-> 0, variation |-> 0]
    ELSE LET cv == CvGuarded(std, mean)
         IN  [bot_score |->
                  ClampBotScore(ConsistencyScore(cv, pitch_consistency_threshold, 300)),
              variation |-> cv]

AnalyzeEnergyPatterns(n, mean, std) ==
    IF n < 2
    THEN [bot_score |-> 0, variation |-> 0]
    ELSE LET flatness == CvGuarded(std, mean)
         IN  [bot_score |->
                  ClampBotScore(ConsistencyScore(flatness, energy_flatness_threshold, 200)),
              variation |-> flatness]

\* mean and std are numpy's mean and std of the per-coefficient deviations
\* mfcc_std, in thousandths; np.var(mfcc_std) is std squared
AnalyzeMfccAnomalies(n, mean, std) ==
    IF n = 0
    THEN [bot_score |-> 0, variation |-> 0]
    ELSE LET variance_pattern == (std * std) \div 1000
             anomaly_score == Min(1000, (variance_pattern * 1000) \div 500)
             regularity == 1000 - (std * 1000000) \div (mean * 1000 + 1)
             regularity_score == Max(0, regularity)
             bot_score == (anomaly_score * 400 + regularity_score * 600) \div 1000
         IN  [bot_score |-> ClampBotScore(bot_score),
              variation |-> anomaly_score]

\* c, r, b: [mean, std] of spectral centroids, rolloff and bandwidth
AnalyzeSpectralCharacteristics(c, r, b) ==
    LET avg_cv == (CvEps(c.std, c.mean) + CvEps(r.std, r.mean)
                     + CvEps(b.std, b.mean)) \div 3
    IN  [bot_score |->
             ClampBotScore(ConsistencyScore(avg_cv, spectral_centroid_threshold, 300)),
         variation |-> avg_cv]

AnalyzeZeroCrossingRate(n, mean, std) ==
    IF n < 2
    THEN [bot_score |-> 0, variation |-> 0]
    ELSE LET zcr_cv == CvEps(std, mean)
         IN  [bot_score |->
                  ClampBotScore(ConsistencyScore(zcr_cv, zero_crossing_threshold, 200)),
              variation |-> zcr_cv]

\* n: number of frames whose first formant is positive
AnalyzeFormantPatterns(n, mean, std) ==
    IF n < 2
    THEN [bot_score |-> 0, variation |-> 0]
    ELSE LET f1_cv == CvEps(std, mean)
         IN  [bot_score |-> IF f1_cv < 100 THEN 800
                            ELSE IF f1_cv < 150 THEN 500 ELSE 200,
              variation |-> f1_cv]

(***************************************************************************)
(* firestore_service.py : the document store of one user                   *)
(* A session is [id, start_time, risk_level, depression_score]; risk_level *)
(* and depression_score are None until an analysis sets them.  start_time  *)
(* and a check-in's id order the documents as their server timestamps do.  *)
(* A mood check-in is [id, created_at, mood] with created_at in days.      *)
(***************************************************************************)
Take(seq, n) == SubSeq(seq, 1, Min(n, Len(seq)))

LastN(seq, n) == SubSeq(seq, Max(1, Len(seq) - n + 1), Len(seq))

RECURSIVE SetToSeq(_)
SetToSeq(S) ==
    IF S = {} THEN <<>>
    ELSE LET x == CHOOSE y \in S : TRUE
         IN  <<x>> \o SetToSeq(S \ {x})

\* place s in the sorted sequence acc, after the elements it does not precede
\* (Python's sort is stable, also with reverse=True)
InsertByStart(acc, s, desc) ==
    LET n == Cardinality({j \in DOMAIN acc :
                 IF desc THEN acc[j].start_time >= s.start_time
                         ELSE acc[j].start_time <= s.start_time})
    IN  SubSeq(acc, 1, n) \o <<s>> \o SubSeq(acc, n + 1, Len(acc))

RECURSIVE SortedByStart(_, _, _)
SortedByStart(seq, acc, desc) ==
    IF seq = <<>> THEN acc
    ELSE SortedByStart(Tail(seq), InsertByStart(acc, Head(seq), desc), desc)

\* all sessions of the user, sorted by start_time descending
get_user_sessions(store) == SortedByStart(SetToSeq(store), <<>>, TRUE)

RECURSIVE SortedById(_, _)
SortedById(seq, acc) ==
    IF seq = <<>> THEN acc
    ELSE LET c == Head(seq)
             n == Cardinality({j \in DOMAIN acc : acc[j].id >= c.id})
         IN  SortedById(Tail(seq),
                        SubSeq(acc, 1, n) \o <<c>> \o SubSeq(acc, n + 1, Len(acc)))

\* the check-ins whose date is not before start_date, newest first, at most limit
get_user_mood_checkins(store, limit, start_date) ==
    Take(SortedById(SetToSeq({c \in store : c.created_at >= start_date}), <<>>),
         limit)

(***************************************************************************)
(* digital_twin_service.py                                                 *)
(***************************************************************************)
risk_levels_order == <<"low", "moderate", "high", "severe">>

RiskIndex(level) ==
    IF \E i \in DOMAIN risk_levels_order : risk_levels_order[i] = level
    THEN (CHOOSE i \in DOMAIN risk_levels_order : risk_levels_order[i] = level) - 1
    ELSE 0

negative_moods == {"Sad", "Anxious"}

RECURSIVE SumSeq(_)
SumSeq(seq) == IF seq = <<>> THEN 0 ELSE Head(seq) + SumSeq(Tail(seq))

HasScore(s) == ~IsNone(s.depression_score)

\* variant: a session without a depression score counts with score 0
ScoresNoneAsZero(seq) ==
    [i \in DOMAIN seq |->
        IF HasScore(seq[i]) THEN Val(seq[i].depression_score) ELSE 0]

\* the non-null depression scores of a session sequence, in order
Scores(seq) ==
    LET kept == SelectSeq(seq, HasScore)
    IN  [i \in DOMAIN kept |-> Val(kept[i].depression_score)]

_calculate_avg_score(seq) ==
    IF Scores(seq) = <<>> THEN 0 ELSE SumSeq(Scores(seq)) \div Len(Scores(seq))

\* variant: every check-in handed in counts, whatever its age
RecentMoodsAnyAge(checkins, today) ==
    [i \in DOMAIN checkins |-> checkins[i].mood]

\* the moods of the check-ins created in the last 7 days
RecentMoods(checkins, today) ==
    LET InWindow(c) == c.created_at >= today - 7
        kept == SelectSeq(checkins, InWindow)
    IN  [i \in DOMAIN kept |-> kept[i].mood]

NegativeCount(moods) == Cardinality({i \in DOMAIN moods : moods[i] \in negative_moods})

\* the band of negative_count / len(recent_moods) against 0.7, 0.5, 0.3
MoodBand(moods) ==
    IF 10 * NegativeCount(moods) >= 7 * Len(moods) THEN "severe"
    ELSE IF 10 * NegativeCount(moods) >= 5 * Len(moods) THEN "high"
    ELSE IF 10 * NegativeCount(moods) >= 3 * Len(moods) THEN "moderate"
    ELSE "low"

_calculate_mood_risk(checkins, today) ==
    IF checkins = <<>> THEN "low"
    ELSE IF RecentMoods(checkins, today) = <<>> THEN "low"
    ELSE MoodBand(RecentMoods(checkins, today))

HasRiskLevel(s) == ~IsNone(s.risk_level)

\* variant: the whole history is scanned instead of the 5 latest sessions
SessionRiskAllSessions(seq) ==
    IF seq = <<>> THEN "low"
    ELSE LET kept == SelectSeq(seq, HasRiskLevel)
             risk_levels == {Val(kept[i].risk_level) : i \in DOMAIN kept}
         IN  IF "severe" \in risk_levels THEN "severe"
             ELSE IF "high" \in risk_levels THEN "high"
             ELSE IF "moderate" \in risk_levels THEN "moderate"
             ELSE "low"

\* session_risk of _determine_overall_risk
SessionRisk(seq) ==
    IF seq = <<>> THEN "low"
    ELSE LET recent_sessions == Take(SortedByStart(seq, <<>>, TRUE), 5)
             kept == SelectSeq(recent_sessions, HasRiskLevel)
             risk_levels == {Val(kept[i].risk_level) : i \in DOMAIN kept}
         IN  IF "severe" \in risk_levels THEN "severe"
             ELSE IF "high" \in risk_levels THEN "high"
             ELSE IF "moderate" \in risk_levels THEN "moderate"
             ELSE "low"

\* variant: the two risks are averaged instead of maximised
CombineRiskAverage(session_risk, mood_risk) ==
    risk_levels_order[(RiskIndex(session_risk) + RiskIndex(mood_risk)) \div 2 + 1]

\* combine risks - take the higher risk level
CombineRisk(session_risk, mood_risk) ==
    risk_levels_order[Max(RiskIndex(session_risk), RiskIndex(mood_risk)) + 1]

_determine_overall_risk(seq, checkins, today) ==
    CombineRisk(SessionRisk(seq), _calculate_mood_risk(checkins, today))

\* variant: the sessions are ordered newest first before the last five are
\* taken, so the five oldest count as the recent ones
TrendsNewestFirst(seq) ==
    IF Len(seq) < 2 THEN EmptyMap
    ELSE LET sorted_sessions == SortedByStart(seq, <<>>, TRUE)
             recent_scores == Scores(LastN(sorted_sessions, 5))
             earlier_scores == Scores(SubSeq(sorted_sessions, 1, Max(0, Len(seq) - 5)))
         IN  IF recent_scores = <<>> \/ earlier_scores = <<>> THEN EmptyMap
             ELSE LET r == SumSeq(recent_scores) * Len(earlier_scores)
                      e == SumSeq(earlier_scores) * Len(recent_scores)
                  IN  [trend |-> IF r < e THEN "improving"
                                 ELSE IF r > e THEN "declining" ELSE "stable",
                       change |-> SumSeq(recent_scores) \div Len(recent_scores)
                                    - SumSeq(earlier_scores) \div Len(earlier_scores)]

_calculate_trends(seq) ==
    IF Len(seq) < 2 THEN EmptyMap
    ELSE LET sorted_sessions == SortedByStart(seq, <<>>, FALSE)
             recent_scores == Scores(LastN(sorted_sessions, 5))
             earlier_scores == Scores(SubSeq(sorted_sessions, 1, Max(0, Len(seq) - 5)))
         IN  IF recent_scores = <<>> \/ earlier_scores = <<>> THEN EmptyMap
             ELSE LET r == SumSeq(recent_scores) * Len(earlier_scores)
                      e == SumSeq(earlier_scores) * Len(recent_scores)
                  IN  [trend |-> IF r < e THEN "improving"
                                 ELSE IF r > e THEN "declining" ELSE "stable",
                       change |-> SumSeq(recent_scores) \div Len(recent_scores)
                                    - SumSeq(earlier_scores) \div Len(earlier_scores)]

_calculate_mood_trends(checkins, today) ==
    IF Len(checkins) < 2 THEN EmptyMap
    ELSE LET IsRecent(c) == today - 7 <= c.created_at /\ c.created_at <= today
             IsEarlier(c) == today - 14 <= c.created_at /\ c.created_at < today - 7
             rk == SelectSeq(checkins, IsRecent)
             ek == SelectSeq(checkins, IsEarlier)
             recent_moods == [i \in DOMAIN rk |-> rk[i].mood]
             earlier_moods == [i \in DOMAIN ek |-> ek[i].mood]
         IN  IF recent_moods = <<>> \/ earlier_moods = <<>> THEN EmptyMap
             ELSE LET r == NegativeCount(recent_moods) * Len(earlier_moods)
                      e == NegativeCount(earlier_moods) * Len(recent_moods)
                  IN  [trend |-> IF r < e THEN "improving"
                                 ELSE IF r > e THEN "declining" ELSE "stable",
                       recent_negative_ratio |->
                           Ratio(NegativeCount(recent_moods), Len(recent_moods)),
                       earlier_negative_ratio |->
                           Ratio(NegativeCount(earlier_moods), Len(earlier_moods))]

_identify_risk_factors(seq, voice, typing, checkins, today) ==
    LET high_scores == {i \in DOMAIN seq :
                           HasScore(seq[i]) /\ Val(seq[i].depression_score) > 700}
        trends == _calculate_trends(seq)
        moods == RecentMoods(checkins, today)
    IN  (IF high_scores # {} THEN <<"Consistently high depression scores">>
         ELSE <<>>)
        \o (IF \E v \in voice : v.is_fake
            THEN <<"Suspicious voice patterns detected">> ELSE <<>>)
        \o (IF \E t \in typing : t.is_fake
            THEN <<"Suspicious typing patterns detected">> ELSE <<>>)
        \o (IF "trend" \in DOMAIN trends /\ trends.trend = "declining"
            THEN <<"Declining mental health trend">> ELSE <<>>)
        \o (IF checkins = <<>> \/ moods = <<>> THEN <<>>
            ELSE IF MoodBand(moods) = "severe"
            THEN <<"Frequent negative mood check-ins (70%+ in last 7 days)">>
            ELSE IF MoodBand(moods) = "high"
            THEN <<"Elevated negative mood patterns (50%+ in last 7 days)">>
            ELSE IF MoodBand(moods) = "moderate"
            THEN <<"Some negative mood patterns detected (30%+ in last 7 days)">>
            ELSE <<>>)

\* the document create_profile writes
InitialTwin(today) ==
    [mental_health_profile |->
         [baseline_metrics |-> EmptyMap, trends |-> EmptyMap,
          risk_factors |-> <<>>, strengths |-> <<>>, created_at |-> today],
     risk_factors |-> <<>>]

\* the profile update_profile builds from the collections
ComputedProfile(sess, voice, typing, moods, today) ==
    LET seq == get_user_sessions(sess)
        checkins == get_user_mood_checkins(moods, 100, today - 30)
    IN  [total_sessions |-> Len(seq),
         average_depression_score |-> _calculate_avg_score(seq),
         voice_analyses_count |-> Cardinality(voice),
         typing_analyses_count |-> Cardinality(typing),
         mood_checkins_count |-> Len(checkins),
         risk_level |-> _determine_overall_risk(seq, checkins, today),
         trends |-> _calculate_trends(seq),
         mood_trends |-> _calculate_mood_trends(checkins, today),
         last_updated |-> today]

\* the document update_profile writes when a twin exists
ComputedTwin(sess, voice, typing, moods, today) ==
    [mental_health_profile |-> ComputedProfile(sess, voice, typing, moods, today),
     risk_factors |->
         _identify_risk_factors(get_user_sessions(sess), voice, typing,
                                get_user_mood_checkins(moods, 100, today - 30),
                                today)]

\* update_profile: the document stored afterwards; the returned profile is
\* its mental_health_profile
update_profile(twin, sess, voice, typing, moods, today) ==
    IF IsNone(twin)
    THEN InitialTwin(today)
    ELSE ComputedTwin(sess, voice, typing, moods, today)

(***************************************************************************)
(* Inputs of the scoring-function calls                                    *)
(***************************************************************************)
ExampleTranscript ==
    <<"h", "e", "l", "l", "o", " ", "t", "h", "i", "s", " ", "i", "s", " ",
      "a", " ", "p", "r", "a", "n", "k", " ", "c", "a", "l", "l", " ", "l",
      "o", "l", " ", "l", "o", "l", " ", "l", "o", "l", " ", "j", "u", "s",
      "t", " ", "k", "i", "d", "d", "i", "n", "g">>

AbusiveTranscript ==
    <<"l", "o", "l", " ", "L", "O", "L", " ", "j", "o", "k", "e", ",", " ",
      "i", "d", "i", "o", "t", " ", "f", "o", "o", "l", " ", "s", "t", "u",
      "p", "i", "d", "!">>

NonsenseTranscript ==
    <<"a", "a", "a", "a", " ", "a", "1", "2", "3", " ", "h", "e", "l", "l",
      "o">>

MixedTranscript ==
    <<"a", "a", "a", "a", " ", "l", "o", "l", " ", "i", "d", "i", "o", "t">>

LongTokenTranscript ==
    <<"a", "b", "c", "d", "e", "f", "g", "h", "i", "j", "k", "l", "m", "n",
      "o", "p", "q", "r", "s", "t", "u", " ", "o", "k">>

RepetitiveTranscript ==
    <<"n", "o", " ", "n", "o", " ", "n", "o", " ", "n", "o", " ", "n", "o",
      " ", "n", "o", " ", "n", "o", " ", "n", "o", " ", "n", "o", " ", "n",
      "o", " ", "n", "o", " ", "n", "o", " ", "n", "o", " ", "n", "o", " ",
      "n", "o", " ", "n", "o", " ", "n", "o", " ", "n", "o", " ", "n", "o",
      " ", "n", "o", " ", "n", "o", " ", "n", "o">>

SampleTranscripts ==
    {ExampleTranscript, AbusiveTranscript, NonsenseTranscript, MixedTranscript,
     LongTokenTranscript, RepetitiveTranscript}

ShortTranscripts ==
    UNION {[1..n -> {"a", "1", " "}] : n \in 0..MaxTranscriptLen}

Transcripts == SampleTranscripts \cup ShortTranscripts

\* TextFeatures as extract_text_features can return them
DrawnTextFeatures ==
    {ExtractTextFeatures(<<>>)} \cup
    {[token_count |-> tc, nonsense_ratio |-> nr, unique_word_ratio |-> uw,
      joke_word_count |-> jc, abuse_word_count |-> ac,
      suspicious_words |->
          (IF nr > 0 THEN {TokRepeat} ELSE {}) \cup
          (IF jc > 0 THEN {TokLol} ELSE {}) \cup
          (IF ac > 0 THEN {TokIdiot} ELSE {}),
      nonsense_words |-> IF nr > 0 THEN {TokRepeat} ELSE {},
      joke_words_found |-> IF jc > 0 THEN {TokLol} ELSE {},
      abuse_words_found |-> IF ac > 0 THEN {TokIdiot} ELSE {}] :
        tc \in {5, 25}, nr \in {0, 200, 400, 1000}, uw \in {200, 1000},
        jc \in 0..MaxWordCount, ac \in 0..MaxWordCount}

DrawnBehavior ==
    {make_behavior_features(d, r) : d \in {8, 15, 60}, r \in {0, 3}}

\* model probabilities, with two values outside [0,1]
DrawnProbabilities == {0 - 200, 0, 300, 400, 600, 900, 1000, 1100}

DrawnDepression == {None, Some(100), Some(300), Some(699), Some(700), Some(850)}

\* statistics of a non-negative signal of n samples: a zero mean or a
\* single sample leaves no deviation
DrawnStats ==
    {[n |-> n, mean |-> m, std |-> k * 10000] :
        n \in {0, 1, 2, 8}, m \in {0, 500000, 1000000}, k \in 0..MaxStdSteps} \
    {st \in [n : {0, 1, 2, 8}, mean : {0, 500000, 1000000},
             std : {k * 10000 : k \in 0..MaxStdSteps}] :
        st.std > 0 /\ (st.mean = 0 \/ st.n < 2)}

\* the same in thousandths, for the MFCC deviations
DrawnMfccStats ==
    {[n |-> n, mean |-> m, std |-> k * 50] :
        n \in {0, 13}, m \in {0, 500, 1000}, k \in 0..MaxStdSteps} \
    {st \in [n : {0, 13}, mean : {0, 500, 1000},
             std : {k * 50 : k \in 0..MaxStdSteps}] :
        st.std > 0 /\ (st.mean = 0 \/ st.n = 0)}

DrawnSpectralStats ==
    {[mean |-> 1000000, std |-> sd] : sd \in {0, 60000, 120000, 150000, 400000}}

SignalOps ==
    {"_analyze_pitch_consistency", "_analyze_energy_patterns",
     "_analyze_zero_crossing_rate", "_analyze_formant_patterns"}

LabelValues ==
    {None, Some("low"), Some("moderate"), Some("high"), Some("severe")}

\* a history with the given labels; newest first (as get_user_sessions
\* returns it) or oldest first
MkSessions(labels, newestFirst) ==
    [i \in DOMAIN labels |->
        [id |-> i,
         start_time |-> IF newestFirst THEN Len(labels) - i + 1 ELSE i,
         risk_level |-> labels[i],
         depression_score |-> None]]

DrawnLabelLists(maxLen) == UNION {[1..n -> LabelValues] : n \in 0..maxLen}

DrawnToday == 10

\* check-ins of today, of 7 days ago and of 8 days ago
MkCheckins(entries) ==
    [i \in DOMAIN entries |->
        [id |-> Len(entries) - i + 1,
         created_at |-> DrawnToday - entries[i][2],
         mood |-> entries[i][1]]]

DrawnMoodEntries ==
    UNION {[1..n -> {"Happy", "Sad", "Anxious"} \X {0, 7, 8}] :
               n \in 0..MaxDrawnMoods}
    \cup {[i \in 1..10 |-> IF i <= 7 THEN <<"Sad", 0>> ELSE <<"Calm", 0>>]}

(***************************************************************************)
(* Spec: one call of a scoring function per step                           *)
(***************************************************************************)
\* a mood history given by counts: negative and other check-ins inside the
\* 7-day window (created today and exactly 7 days ago, alternating) and
\* negative and other check-ins created 8 days ago
MkMoodHistory(negIn, otherIn, negOld, otherOld) ==
    [i \in 1..negIn |->
        [id |-> i, created_at |-> DrawnToday - (IF i % 2 = 0 THEN 7 ELSE 0),
         mood |-> IF i % 2 = 0 THEN "Anxious" ELSE "Sad"]]
    \o [i \in 1..negOld |->
        [id |-> negIn + i, created_at |-> DrawnToday - 8,
         mood |-> IF i % 2 = 0 THEN "Anxious" ELSE "Sad"]]
    \o [i \in 1..otherIn |->
        [id |-> negIn + negOld + i,
         created_at |-> DrawnToday - (IF i % 2 = 0 THEN 7 ELSE 0),
         mood |-> IF i % 2 = 0 THEN "Calm" ELSE "Happy"]]
    \o [i \in 1..otherOld |->
        [id |-> negIn + negOld + otherIn + i, created_at |-> DrawnToday - 8,
         mood |-> "Neutral"]]

\* depression scores a session can carry: none, 0.3 or 0.8
ScoreValues == {None, Some(300), Some(800)}

\* a history with the given scores; newest first (as get_user_sessions
\* returns it) or oldest first
MkScoredSessions(scores, newestFirst) ==
    [i \in DOMAIN scores |->
        [id |-> i,
         start_time |-> IF newestFirst THEN Len(scores) - i + 1 ELSE i,
         risk_level |-> None,
         depression_score |-> scores[i]]]

DrawnScoreLists == UNION {[1..n -> ScoreValues] : n \in 0..MaxTrendSessions}

\* the calls the model makes: op, arguments, and no result yet
InitCombineScores ==
    \E p \in DrawnProbabilities, tf \in DrawnTextFeatures,
       bf \in DrawnBehavior, d \in DrawnDepression :
        call = [op |-> "combine_scores", done |-> FALSE,
                args |-> [p_fake_model |-> p, text_features |-> tf,
                          behavior_features |-> bf, depression_score |-> d]]

InitExtractTextFeatures ==
    \E tr \in Transcripts :
        call = [op |-> "extract_text_features", done |-> FALSE,
                args |-> [transcript |-> tr]]

InitAnalyzeCall ==
    \E tr \in Transcripts, p \in {300, 600}, d \in {8, 60}, r \in {0, 4},
       dep \in {None, Some(100), Some(500), Some(850)} :
        call = [op |-> "analyze_call", done |-> FALSE,
                args |-> [transcript |-> tr, p_fake_model |-> p,
                          call_duration_sec |-> d,
                          repeat_call_count_last_hour |-> r,
                          depression_score |-> dep]]

InitVoice ==
    \/ \E o \in SignalOps, st \in DrawnStats :
           call = [op |-> o, done |-> FALSE, args |-> st]
    \/ \E st \in DrawnMfccStats :
           call = [op |-> "_analyze_mfcc_anomalies", done |-> FALSE, args |-> st]
    \/ \E c \in DrawnSpectralStats, r \in DrawnSpectralStats,
          b \in DrawnSpectralStats :
           call = [op |-> "_analyze_spectral_characteristics", done |-> FALSE,
                   args |-> [centroid |-> c, rolloff |-> r, bandwidth |-> b]]

\* every mood history with a history of at most one session, and every
\* session history without check-ins
InitDetermineOverallRisk ==
    \/ \E labels \in DrawnLabelLists(1), e \in DrawnMoodEntries :
           call = [op |-> "_determine_overall_risk", done |-> FALSE,
                   args |-> [sessions |-> MkSessions(labels, TRUE),
                             mood_checkins |-> MkCheckins(e),
                             today |-> DrawnToday]]
    \/ \E labels \in DrawnLabelLists(MaxDrawnSessions), nf \in BOOLEAN :
           call = [op |-> "_determine_overall_risk", done |-> FALSE,
                   args |-> [sessions |-> MkSessions(labels, nf),
                             mood_checkins |-> <<>>,
                             today |-> DrawnToday]]

InitCalculateMoodRisk ==
    \E negIn \in 0..MaxMoodCount, otherIn \in 0..MaxMoodCount,
       negOld \in 0..MaxOldMoods, otherOld \in 0..MaxOldMoods :
        call = [op |-> "_calculate_mood_risk", done |-> FALSE,
                args |-> [mood_checkins |->
                              MkMoodHistory(negIn, otherIn, negOld, otherOld),
                          today |-> DrawnToday]]

InitCalculateTrends ==
    \E scores \in DrawnScoreLists, nf \in BOOLEAN :
        call = [op |-> "_calculate_trends", done |-> FALSE,
                args |-> [sessions |-> MkScoredSessions(scores, nf)]]

CallExtractTextFeatures ==
    /\ call.op = "extract_text_features"
    /\ ~call.done
    /\ call' = [op |-> call.op, done |-> TRUE, args |-> call.args,
                result |-> ExtractTextFeatures(call.args.transcript)]
    /\ UNCHANGED twinVars

CallCombineScores ==
    /\ call.op = "combine_scores"
    /\ ~call.done
    /\ call' = [op |-> call.op, done |-> TRUE, args |-> call.args,
                result |-> CombineScores(call.args.p_fake_model,
                                         call.args.text_features,
                                         call.args.behavior_features,
                                         call.args.depression_score)]
    /\ UNCHANGED twinVars

CallAnalyzeCall ==
    /\ call.op = "analyze_call"
    /\ ~call.done
    /\ call' = [op |-> call.op, done |-> TRUE, args |-> call.args,
                result |-> analyze_call(call.args.transcript,
                                             call.args.p_fake_model,
                                             call.args.call_duration_sec,
                                             call.args.repeat_call_count_last_hour,
                                             call.args.depression_score)]
    /\ UNCHANGED twinVars

CallAnalyzePitch ==
    /\ call.op = "_analyze_pitch_consistency"
    /\ ~call.done
    /\ call' = [op |-> call.op, done |-> TRUE, args |-> call.args,
                result |-> AnalyzePitchConsistency(call.args.n, call.args.mean,
                                                   call.args.std)]
    /\ UNCHANGED twinVars

CallAnalyzeEnergy ==
    /\ call.op = "_analyze_energy_patterns"
    /\ ~call.done
    /\ call' = [op |-> call.op, done |-> TRUE, args |-> call.args,
                result |-> AnalyzeEnergyPatterns(call.args.n, call.args.mean,
                                                 call.args.std)]
    /\ UNCHANGED twinVars

CallAnalyzeMfcc ==
    /\ call.op = "_analyze_mfcc_anomalies"
    /\ ~call.done
    /\ call' = [op |-> call.op, done |-> TRUE, args |-> call.args,
                result |-> AnalyzeMfccAnomalies(call.args.n, call.args.mean,
                                                call.args.std)]
    /\ UNCHANGED twinVars

CallAnalyzeSpectral ==
    /\ call.op = "_analyze_spectral_characteristics"
    /\ ~call.done
    /\ call' = [op |-> call.op, done |-> TRUE, args |-> call.args,
                result |-> AnalyzeSpectralCharacteristics(call.args.centroid,
                                                          call.args.rolloff,
                                                          call.args.bandwidth)]
    /\ UNCHANGED twinVars

CallAnalyzeZcr ==
    /\ call.op = "_analyze_zero_crossing_rate"
    /\ ~call.done
    /\ call' = [op |-> call.op, done |-> TRUE, args |-> call.args,
                result |-> AnalyzeZeroCrossingRate(call.args.n, call.args.mean,
                                                   call.args.std)]
    /\ UNCHANGED twinVars

CallAnalyzeFormant ==
    /\ call.op = "_analyze_formant_patterns"
    /\ ~call.done
    /\ call' = [op |-> call.op, done |-> TRUE, args |-> call.args,
                result |-> AnalyzeFormantPatterns(call.args.n, call.args.mean,
                                                  call.args.std)]
    /\ UNCHANGED twinVars

CallDetermineOverallRisk ==
    /\ call.op = "_determine_overall_risk"
    /\ ~call.done
    /\ call' = [op |-> call.op, done |-> TRUE, args |-> call.args,
                result |->
                    [risk_level |->
                         _determine_overall_risk(call.args.sessions,
                                                 call.args.mood_checkins,
                                                 call.args.today),
                     session_risk |-> SessionRisk(call.args.sessions),
                     mood_risk |-> _calculate_mood_risk(call.args.mood_checkins,
                                                        call.args.today)]]
    /\ UNCHANGED twinVars

CallCalculateMoodRisk ==
    /\ call.op = "_calculate_mood_risk"
    /\ ~call.done
    /\ call' = [op |-> call.op, done |-> TRUE, args |-> call.args,
                result |-> _calculate_mood_risk(call.args.mood_checkins,
                                                call.args.today)]
    /\ UNCHANGED twinVars

\* _calculate_trends, and _identify_risk_factors on the same sessions with no
\* analyses and no check-ins
CallCalculateTrends ==
    /\ call.op = "_calculate_trends"
    /\ ~call.done
    /\ call' = [op |-> call.op, done |-> TRUE, args |-> call.args,
                result |->
                    [trends |-> _calculate_trends(call.args.sessions),
                     risk_factors |->
                         _identify_risk_factors(call.args.sessions, {}, {},
                                                <<>>, DrawnToday)]]
    /\ UNCHANGED twinVars

\* _detect_fake_typing_patterns that adds the fourth bonus whenever
\* timing_std is low
DetectFakeTypingIgnoringPause(features) ==
    Min(1000,
        (IF features.speed_consistency > 900 THEN 300 ELSE 0)
        + (IF features.timing_consistency > 850 THEN 250 ELSE 0)
        + (IF features.avg_error_rate < 10 THEN 150 ELSE 0)
        + (IF features.timing_std < 100 THEN 100 ELSE 0)
        + (IF features.timing_variance < 10 THEN 200 ELSE 0))

\* _detect_fake_typing_patterns
_detect_fake_typing_patterns(features) ==
    Min(1000,
        (IF features.speed_consistency > 900 THEN 300 ELSE 0)
        + (IF features.timing_consistency > 850 THEN 250 ELSE 0)
        + (IF features.avg_error_rate < 10 THEN 150 ELSE 0)
        + (IF features.avg_pause_duration > 0 /\ features.timing_std < 100
           THEN 100 ELSE 0)
        + (IF features.timing_variance < 10 THEN 200 ELSE 0))

\* _detect_fake_voice_patterns; pitch_variance in Hz squared
_detect_fake_voice_patterns(features) ==
    Min(1000,
        (IF features.pitch_consistency > 900 THEN 300 ELSE 0)
        + (IF features.energy_consistency > 850 THEN 250 ELSE 0)
        + (IF features.pitch_variance < 10 THEN 200 ELSE 0)
        + (IF features.avg_fake_confidence > 500 THEN 250 ELSE 0))

\* is_fake that asks for a score above 1.0
BatchIsFakeAboveOne(fake_score) == fake_score > 1000

\* analyze_typing_batch, analyze_voice_batch: is_fake = fake_score >= 0.6
batch_is_fake(fake_score) == fake_score >= 600

\* aggregated features at and around the thresholds of the rules
DrawnTypingFeatures ==
    {f \in [speed_consistency : {900, 901, 950},
            timing_consistency : {850, 851, 900},
            avg_error_rate : {0, 9, 10},
            avg_pause_duration : {0, 500},
            timing_std : {0, 99, 100},
            timing_variance : {0, 9, 10}] :
        \* the variance is the square of the standard deviation
        f.timing_variance = (f.timing_std * f.timing_std) \div 1000}

DrawnVoiceFeatures ==
    [pitch_consistency : {900, 901},
     energy_consistency : {850, 851},
     pitch_variance : {0, 9, 10},
     avg_fake_confidence : {0, 500, 501}]

InitDetectFakeTyping ==
    \E features \in DrawnTypingFeatures :
        call = [op |-> "_detect_fake_typing_patterns", done |-> FALSE,
                args |-> [features |-> features]]

InitDetectFakeVoice ==
    \E features \in DrawnVoiceFeatures :
        call = [op |-> "_detect_fake_voice_patterns", done |-> FALSE,
                args |-> [features |-> features]]

\* analyze_typing_batch from the aggregated features on: the score and is_fake
CallDetectFakeTyping ==
    /\ call.op = "_detect_fake_typing_patterns"
    /\ ~call.done
    /\ call' = [op |-> call.op, done |-> TRUE, args |-> call.args,
                result |->
                    [fake_score |-> _detect_fake_typing_patterns(call.args.features),
                     is_fake |->
                         batch_is_fake(
                             _detect_fake_typing_patterns(call.args.features))]]
    /\ UNCHANGED twinVars

\* analyze_voice_batch from the aggregated features on: the score and is_fake
CallDetectFakeVoice ==
    /\ call.op = "_detect_fake_voice_patterns"
    /\ ~call.done
    /\ call' = [op |-> call.op, done |-> TRUE, args |-> call.args,
                result |->
                    [fake_score |-> _detect_fake_voice_patterns(call.args.features),
                     is_fake |->
                         batch_is_fake(
                             _detect_fake_voice_patterns(call.args.features))]]
    /\ UNCHANGED twinVars

TwinInit ==
    /\ sessions = {}
    /\ typing_analyses = {}
    /\ voice_analyses = {}
    /\ mood_checkins = {}
    /\ digital_twin = None
    /\ now = 0
    /\ resp = [route |-> "none"]
    /\ phq9_session = None
    /\ alerts = <<>>
    /\ requests = {}

Init ==
    /\ \/ InitCombineScores
       \/ InitAnalyzeCall
       \/ InitVoice
       \/ InitDetermineOverallRisk
       \/ InitCalculateMoodRisk
       \/ InitCalculateTrends
       \/ InitDetectFakeTyping
       \/ InitDetectFakeVoice
       \/ InitExtractTextFeatures
    /\ TwinInit

Next ==
    \/ CallCombineScores
    \/ CallAnalyzeCall
    \/ CallAnalyzePitch
    \/ CallAnalyzeEnergy
    \/ CallAnalyzeMfcc
    \/ CallAnalyzeSpectral
    \/ CallAnalyzeZcr
    \/ CallAnalyzeFormant
    \/ CallDetermineOverallRisk
    \/ CallCalculateMoodRisk
    \/ CallCalculateTrends
    \/ CallDetectFakeTyping
    \/ CallDetectFakeVoice
    \/ CallExtractTextFeatures

Spec == Init /\ [][Next]_vars

(***************************************************************************)
(* SpecTwin: the routes that write the user's collections and the twin.    *)
(* Admin alerts and the 'mood' field a check-in copies onto a session are  *)
(* not read by the digital twin and are left out; the batch checkpoints of *)
(* the analysis routes (5, 20 and 35 analyses) lie beyond MaxAnalyses.     *)
(***************************************************************************)
valid_moods == {"Excited", "Happy", "Calm", "Neutral", "Anxious", "Sad"}

\* typing_analysis.py / voice_analysis.py : _get_risk_level
_get_risk_level(depression_score) ==
    IF depression_score >= 750 THEN "severe"
    ELSE IF depression_score >= 500 THEN "high"
    ELSE IF depression_score >= 250 THEN "moderate"
    ELSE "low"

\* depression scores an analysis can return
AnalysisScores == {300, 800}

\* create_session: a new session document, started after every earlier one
NewSession(store) ==
    [id |-> Cardinality(store) + 1, start_time |-> Cardinality(store) + 1,
     risk_level |-> None, depression_score |-> None]

\* update_session(id, {'depression_score': ..., 'risk_level': ...})
update_session(store, id, depression_score, risk_level) ==
    {IF x.id = id
     THEN [x EXCEPT !.depression_score = Some(depression_score),
                    !.risk_level = Some(risk_level)]
     ELSE x : x \in store}

\* the analyze routes: get or create the session, save the analysis, update
\* the session; target 0 stands for a request without session_id
RecordAnalysis(target, score) ==
    LET created == IF target = 0 THEN sessions \cup {NewSession(sessions)}
                   ELSE sessions
        id == IF target = 0 THEN NewSession(sessions).id ELSE target
    IN  update_session(created, id, score, _get_risk_level(score))

\* routes/typing.py : POST /analyze
AnalyzeTyping ==
    /\ Cardinality(typing_analyses) < MaxAnalyses
    /\ \E target \in {0} \cup {x.id : x \in sessions},
          score \in AnalysisScores, fake \in BOOLEAN :
           /\ target = 0 => Cardinality(sessions) < MaxSessions
           /\ sessions' = RecordAnalysis(target, score)
           /\ typing_analyses' = typing_analyses \cup
                  {[id |-> Cardinality(typing_analyses) + 1, is_fake |-> fake]}
           /\ resp' = [route |-> "analyze_typing", status |-> 200,
                       risk_level |-> _get_risk_level(score)]
    /\ UNCHANGED <<phq9_session, alerts, requests, call, voice_analyses, mood_checkins, digital_twin, now>>

\* routes/voice.py : the names bound in the module (its imports, router,
\* firestore_service, and its classes and functions)
voice_module_names ==
    {"APIRouter", "Depends", "HTTPException", "UploadFile", "File", "Form",
     "BaseModel", "Optional", "datetime", "os", "json", "get_current_user",
     "VoiceAnalysisService", "CallBotDetectionService", "FakeDetectionService",
     "FirestoreService", "settings", "router", "firestore_service",
     "VoiceAnalysisResponse", "analyze_voice", "get_voice_history",
     "get_supported_languages", "get_voice_batch_status"}

\* the names analyze_voice binds itself, with the import in its body
\* ("from datetime import datetime, timedelta"): they are local to the whole
\* function
analyze_voice_locals == {"datetime", "timedelta"}

\* whether the name can be read in analyze_voice: a local name once the
\* statement that binds it has run, any other name if the module binds it
NameBound(name, local_import_done) ==
    IF name \in analyze_voice_locals THEN local_import_done
    ELSE name \in voice_module_names

valid_languages == {"sinhala", "tamil", "english"}

\* the languages submitted, and language.lower() of each
DrawnLanguages == {"sinhala", "Tamil", "french"}

LanguageLower == [l \in DrawnLanguages |-> IF l = "Tamil" THEN "tamil" ELSE l]

\* batch_fake_detection.py : voice_batches
voice_batches ==
    {[start |-> 1, end |-> 5, name |-> "initial_batch"],
     [start |-> 15, end |-> 20, name |-> "mid_batch"],
     [start |-> 30, end |-> 35, name |-> "late_batch"]}

\* routes/voice.py : POST /analyze.  The language is validated; the path of
\* the upload is built from datetime.now(), read before the import in the
\* body has bound the local name; after the analysis is saved the batch
\* checkpoint is asked of batch_fake_service
AnalyzeVoice ==
    /\ \E language \in DrawnLanguages,
          target \in {0} \cup {x.id : x \in sessions},
          score \in AnalysisScores, fake \in BOOLEAN :
        LET req == [language |-> language, session_id |-> target]
            Fail(code, error) ==
                /\ resp' = [route |-> "analyze_voice", request |-> req,
                            status |-> code, error |-> error]
                /\ UNCHANGED <<sessions, voice_analyses>>
        IN  IF LanguageLower[language] \notin valid_languages
            THEN Fail(400, "HTTPException")
            ELSE IF ~NameBound("datetime", FALSE)
            THEN Fail(500, "UnboundLocalError")
            ELSE
              /\ Cardinality(voice_analyses) < MaxAnalyses
              /\ target = 0 => Cardinality(sessions) < MaxSessions
              /\ sessions' = RecordAnalysis(target, score)
              /\ voice_analyses' = voice_analyses \cup
                     {[id |-> Cardinality(voice_analyses) + 1, is_fake |-> fake]}
              /\ IF ~NameBound("batch_fake_service", TRUE)
                 THEN resp' = [route |-> "analyze_voice", request |-> req,
                               status |-> 500, error |-> "NameError"]
                 ELSE resp' = [route |-> "analyze_voice", request |-> req,
                               status |-> 200,
                               risk_level |-> _get_risk_level(score),
                               batch_checked |->
                                   \E batch \in voice_batches :
                                       Cardinality(voice_analyses') = batch.end]
    /\ UNCHANGED <<phq9_session, alerts, requests, call, typing_analyses, mood_checkins, digital_twin, now>>

\* routes/mood.py : POST /checkin - validate, store the check-in, then
\* update_profile (its failure would only be logged)
CreateMoodCheckin ==
    /\ Cardinality(mood_checkins) < MaxMoods
    /\ \E mood \in {"Happy", "Sad", "Angry"} :
           IF mood \notin valid_moods
           THEN /\ resp' = [route |-> "create_mood_checkin", status |-> 400]
                /\ UNCHANGED <<mood_checkins, digital_twin>>
           ELSE LET stored == mood_checkins \cup
                                  {[id |-> Cardinality(mood_checkins) + 1,
                                    created_at |-> now, mood |-> mood]}
                IN  /\ mood_checkins' = stored
                    /\ digital_twin' =
                           Some(update_profile(digital_twin, sessions,
                                               voice_analyses, typing_analyses,
                                               stored, now))
                    /\ resp' = [route |-> "create_mood_checkin",
                                status |-> 200, mood |-> mood]
    /\ UNCHANGED <<phq9_session, alerts, requests, call, sessions, typing_analyses, voice_analyses, now>>

\* routes/digital_twin.py : POST /update
UpdateDigitalTwin ==
    /\ digital_twin' = Some(update_profile(digital_twin, sessions, voice_analyses,
                                           typing_analyses, mood_checkins, now))
    /\ resp' = [route |-> "update_digital_twin", status |-> 200,
                profile |-> Val(digital_twin').mental_health_profile]
    /\ UNCHANGED <<phq9_session, alerts, requests, call, sessions, typing_analyses, voice_analyses,
                   mood_checkins, now>>

\* routes/digital_twin.py : GET /profile - creates the twin when there is none
GetDigitalTwin ==
    /\ digital_twin' = IF IsNone(digital_twin) THEN Some(InitialTwin(now))
                       ELSE digital_twin
    /\ resp' = [route |-> "get_digital_twin", status |-> 200,
                profile |-> Val(digital_twin').mental_health_profile]
    /\ UNCHANGED <<phq9_session, alerts, requests, call, sessions, typing_analyses, voice_analyses,
                   mood_checkins, now>>

\* sixteen days pass
AdvanceTime ==
    /\ now + 16 <= MaxDay
    /\ now' = now + 16
    /\ resp' = [route |-> "none"]
    /\ UNCHANGED <<phq9_session, alerts, requests, call, sessions, typing_analyses, voice_analyses,
                   mood_checkins, digital_twin>>

InitTwin ==
    /\ call = [op |-> "none", done |-> TRUE]
    /\ TwinInit

NextTwin ==
    \/ AnalyzeTyping
    \/ AnalyzeVoice
    \/ CreateMoodCheckin
    \/ UpdateDigitalTwin
    \/ GetDigitalTwin
    \/ AdvanceTime

SpecTwin == InitTwin /\ [][NextTwin]_vars

(***************************************************************************)
(* services/phq9_service.py - PHQ9Service.  An answer is the sequence of   *)
(* its characters.                                                         *)
(***************************************************************************)
DecimalDigits == <<"0", "1", "2", "3", "4", "5", "6", "7", "8", "9">>

UpperAlphabet == <<"A", "B", "C", "D", "E", "F", "G", "H", "I", "J", "K", "L", "M",
                   "N", "O", "P", "Q", "R", "S", "T", "U", "V", "W", "X", "Y", "Z">>

LowerAlphabet == <<"a", "b", "c", "d", "e", "f", "g", "h", "i", "j", "k", "l", "m",
                   "n", "o", "p", "q", "r", "s", "t", "u", "v", "w", "x", "y", "z">>

\* str.lower(): the characters of the three answer tables other than A-Z
\* have no upper case
StrLower(s) ==
    [i \in DOMAIN s |->
        IF \E k \in DOMAIN UpperAlphabet : UpperAlphabet[k] = s[i]
        THEN LowerAlphabet[CHOOSE k \in DOMAIN UpperAlphabet : UpperAlphabet[k] = s[i]]
        ELSE s[i]]

Whitespace == {" "}

\* str.strip()
RECURSIVE StripLeft(_)
StripLeft(s) ==
    IF s # <<>> /\ Head(s) \in Whitespace THEN StripLeft(Tail(s)) ELSE s

RECURSIVE StripRight(_)
StripRight(s) ==
    IF s # <<>> /\ s[Len(s)] \in Whitespace
    THEN StripRight(SubSeq(s, 1, Len(s) - 1)) ELSE s

StrStrip(s) == StripRight(StripLeft(s))

\* str.isdigit()
IsDigitStr(s) ==
    /\ s # <<>>
    /\ \A i \in DOMAIN s : \E d \in DOMAIN DecimalDigits : DecimalDigits[d] = s[i]

DigitValue(c) == (CHOOSE d \in DOMAIN DecimalDigits : DecimalDigits[d] = c) - 1

\* int() of a string of decimal digits
RECURSIVE StrToInt(_)
StrToInt(s) ==
    IF s = <<>> THEN 0
    ELSE 10 * StrToInt(SubSeq(s, 1, Len(s) - 1)) + DigitValue(s[Len(s)])

\* key in answer
StrContains(key, s) ==
    \E i \in 0..(Len(s) - Len(key)) : SubSeq(s, i + 1, i + Len(key)) = key

\* text_to_score, in the order the dict is iterated
text_to_score ==
    <<[key |-> <<"n", "o", "t", " ", "a", "t", " ", "a", "l", "l">>, value |-> 0],
      [key |-> <<"n", "e", "v", "e", "r">>, value |-> 0],
      [key |-> <<"n", "o", "n", "e">>, value |-> 0],
      [key |-> <<"n", "o">>, value |-> 0],
      [key |-> <<"s", "e", "v", "e", "r", "a", "l", " ", "d", "a", "y", "s">>, value |-> 1],
      [key |-> <<"s", "o", "m", "e", " ", "d", "a", "y", "s">>, value |-> 1],
      [key |-> <<"s", "o", "m", "e", "t", "i", "m", "e", "s">>, value |-> 1],
      [key |-> <<"f", "e", "w">>, value |-> 1],
      [key |-> <<"m", "o", "r", "e", " ", "t", "h", "a", "n", " ", "h", "a", "l", "f">>, value |-> 2],
      [key |-> <<"h", "a", "l", "f">>, value |-> 2],
      [key |-> <<"o", "f", "t", "e", "n">>, value |-> 2],
      [key |-> <<"f", "r", "e", "q", "u", "e", "n", "t", "l", "y">>, value |-> 2],
      [key |-> <<"n", "e", "a", "r", "l", "y", " ", "e", "v", "e", "r", "y", " ", "d", "a", "y">>, value |-> 3],
      [key |-> <<"e", "v", "e", "r", "y", " ", "d", "a", "y">>, value |-> 3],
      [key |-> <<"d", "a", "i", "l", "y">>, value |-> 3],
      [key |-> <<"a", "l", "w", "a", "y", "s">>, value |-> 3],
      [key |-> <<"m", "o", "s", "t", " ", "d", "a", "y", "s">>, value |-> 3]>>

\* si_to_score, in the order the dict is iterated
si_to_score ==
    <<[key |-> <<"ක", "ි", "ස", "ි", "ස", "ේ", "ත", "්", " ", "න", "ැ", "ත">>, value |-> 0],
      [key |-> <<"න", "ැ", "ත">>, value |-> 0],
      [key |-> <<"ද", "ි", "න", " ", "ක", "ි", "හ", "ි", "ප", "ය", "ක", "්">>, value |-> 1],
      [key |-> <<"ස", "ම", "හ", "ර", " ", "ද", "ි", "න">>, value |-> 1],
      [key |-> <<"ද", "ි", "න", " ", "අ", "ඩ", "ක", "ට", " ", "ව", "ඩ", "ා">>, value |-> 2],
      [key |-> <<"බ", "ො", "හ", "ෝ", " ", "ව", "ි", "ට">>, value |-> 2],
      [key |-> <<"ද", "ි", "න", "ප", "ත", "ා", "ම">>, value |-> 3],
      [key |-> <<"ස", "ැ", "ම", "ද", "ා">>, value |-> 3]>>

\* ta_to_score, in the order the dict is iterated
ta_to_score ==
    <<[key |-> <<"இ", "ல", "்", "ல", "ை">>, value |-> 0],
      [key |-> <<"ஒ", "ர", "ு", "ப", "ோ", "த", "ு", "ம", "்">>, value |-> 0],
      [key |-> <<"ச", "ி", "ல", " ", "ந", "ா", "ட", "்", "க", "ள", "்">>, value |-> 1],
      [key |-> <<"ச", "ி", "ல">>, value |-> 1],
      [key |-> <<"ப", "ா", "த", "ி", "க", "்", "க", "ு", "ம", "்", " ", "ம", "ே", "ற", "்", "ப", "ட", "்", "ட">>, value |-> 2],
      [key |-> <<"ப", "ெ", "ர", "ு", "ம", "்", "ப", "ா", "ல", "ு", "ம", "்">>, value |-> 2],
      [key |-> <<"க", "ி", "ட", "்", "ட", "த", "்", "த", "ட", "்", "ட", " ", "ஒ", "வ", "்", "வ", "ொ", "ர", "ு", " ", "ந", "ா", "ள", "ு", "ம", "்">>, value |-> 3],
      [key |-> <<"ஒ", "வ", "்", "வ", "ொ", "ர", "ு", " ", "ந", "ா", "ள", "ு", "ம", "்">>, value |-> 3]>>

\* for key, value in table.items(): if key in answer: return value
RECURSIVE FirstMatch(_, _)
FirstMatch(table, s) ==
    IF table = <<>> THEN None
    ELSE IF StrContains(Head(table).key, s) THEN Some(Head(table).value)
    ELSE FirstMatch(Tail(table), s)

\* variant: any run of digits is taken as the score
ParseAnswerAnyNumber(raw) ==
    LET answer == StrLower(StrStrip(raw))
    IN  IF IsDigitStr(answer) THEN Some(StrToInt(answer))
        ELSE FirstMatch(text_to_score \o si_to_score \o ta_to_score, answer)

\* parse_answer: the score 0..3 of an answer, or None
parse_answer(raw) ==
    LET answer == StrLower(StrStrip(raw))
    IN  IF IsDigitStr(answer) /\ StrToInt(answer) \in 0..3
        THEN Some(StrToInt(answer))
        ELSE FirstMatch(text_to_score \o si_to_score \o ta_to_score, answer)

\* a raised ValueError, as the result of the call that raised it
ValueError == [error |-> "ValueError"]

Raised(r) == "error" \in DOMAIN r

\* is_complete
is_complete(answers) ==
    Cardinality(DOMAIN answers) = 9 /\ \A q \in 1..9 : q \in DOMAIN answers

\* variant: the ninth answer is left out of the total
CalculateScoreWithoutNinth(answers) ==
    IF Cardinality(DOMAIN answers) # 9 THEN ValueError
    ELSE IF \E q \in 1..9 : q \notin DOMAIN answers THEN ValueError
    ELSE IF \E q \in 1..9 : ~(0 <= answers[q] /\ answers[q] <= 3) THEN ValueError
    ELSE [value |-> SumMap(answers, 1..8)]

\* calculate_score: [value |-> total], or ValueError for the exception raised
calculate_score(answers) ==
    IF Cardinality(DOMAIN answers) # 9 THEN ValueError
    ELSE IF \E q \in 1..9 : q \notin DOMAIN answers THEN ValueError
    ELSE IF \E q \in 1..9 : ~(0 <= answers[q] /\ answers[q] <= 3) THEN ValueError
    ELSE [value |-> SumMap(answers, 1..9)]

\* variant: escalation only from the severe band (20 and above)
InterpretScoreEscalateSevereOnly(score) ==
    IF score < 0 \/ score > 27 THEN ValueError
    ELSE [score |-> score,
          severity |-> IF score <= 4 THEN "minimal"
                       ELSE IF score <= 9 THEN "mild"
                       ELSE IF score <= 14 THEN "moderate"
                       ELSE IF score <= 19 THEN "moderately_severe"
                       ELSE "severe",
          risk_level |-> IF score <= 4 THEN "low"
                         ELSE IF score <= 9 THEN "moderate"
                         ELSE IF score <= 14 THEN "high"
                         ELSE "severe",
          needs_escalation |-> score >= 20]

\* interpret_score: the interpretation, or ValueError for the exception raised
interpret_score(score) ==
    IF score < 0 \/ score > 27 THEN ValueError
    ELSE [score |-> score,
          severity |-> IF score <= 4 THEN "minimal"
                       ELSE IF score <= 9 THEN "mild"
                       ELSE IF score <= 14 THEN "moderate"
                       ELSE IF score <= 19 THEN "moderately_severe"
                       ELSE "severe",
          risk_level |-> IF score <= 4 THEN "low"
                         ELSE IF score <= 9 THEN "moderate"
                         ELSE IF score <= 14 THEN "high"
                         ELSE "severe",
          needs_escalation |-> score >= 15]

\* variant: the question after the next one
GetNextQuestionSkipping(current_question) ==
    IF current_question < 9 THEN Some(current_question + 2) ELSE None

\* get_next_question
get_next_question(current_question) ==
    IF current_question < 9 THEN Some(current_question + 1) ELSE None

(***************************************************************************)
(* SpecPhq9: one PHQ-9 session of one user and the requests on it.  The    *)
(* store returns phq9_answers with the integer keys the routes wrote (the   *)
(* /chat route also converts string keys back to integers).  Each handler  *)
(* runs to completion before the next one starts.  The mood field, the     *)
(* language and phq9_completed_at are not read by these routes and are     *)
(* left out.                                                               *)
(***************************************************************************)
Owner == "u1"

Users == {"u1", "u2"}

\* answers submitted: "0", " 3 ", "7", "NEVER", "idk" and the Sinhala option
\* for 3
DrawnAnswers ==
    {<<"0">>, <<" ", "3", " ">>, <<"7">>,
     <<"N", "E", "V", "E", "R">>, <<"i", "d", "k">>,
     <<"ස", "ැ", "ම", "ද", "ා">>}

\* parse_answer of every submitted answer
ParsedAnswers == [raw \in DrawnAnswers |-> parse_answer(raw)]

(***************************************************************************)
(* chatbot_safety.py : the crisis detection of the chatbot.  Requests are  *)
(* in English, so the English keyword list is the one consulted.           *)
(***************************************************************************)
CRISIS_KEYWORDS ==
    {<<"s", "u", "i", "c", "i", "d", "e">>,
     <<"k", "i", "l", "l", " ", "m", "y", "s", "e", "l", "f">>,
     <<"e", "n", "d", " ", "m", "y", " ", "l", "i", "f", "e">>,
     <<"w", "a", "n", "t", " ", "t", "o", " ", "d", "i", "e">>,
     <<"h", "u", "r", "t", " ", "m", "y", "s", "e", "l", "f">>,
     <<"c", "u", "t", " ", "m", "y", "s", "e", "l", "f">>,
     <<"o", "v", "e", "r", "d", "o", "s", "e">>,
     <<"j", "u", "m", "p", " ", "o", "f", "f">>,
     <<"n", "o", " ", "r", "e", "a", "s", "o", "n", " ", "t", "o", " ", "l", "i", "v", "e">>,
     <<"b", "e", "t", "t", "e", "r", " ", "o", "f", "f", " ", "d", "e", "a", "d">>,
     <<"s", "e", "l", "f", " ", "h", "a", "r", "m">>}

\* detect_crisis
detect_crisis(message) ==
    \E keyword \in CRISIS_KEYWORDS : StrContains(keyword, StrLower(message))

\* messages with a crisis keyword: "Suicide" and "no reason to live"
DrawnCrisisMessages ==
    {<<"S", "u", "i", "c", "i", "d", "e">>,
     <<"n", "o", " ", "r", "e", "a", "s", "o", "n", " ", "t", "o", " ", "l", "i", "v", "e">>}

\* the messages posted to /chat
ChatMessages == DrawnAnswers \cup DrawnCrisisMessages

\* parse_answer and detect_crisis of every message posted to /chat
ParsedMessages == [raw \in ChatMessages |-> parse_answer(raw)]

CrisisDetected == [raw \in ChatMessages |-> detect_crisis(raw)]

\* a request without an authenticated user (current_user is None)
Anonymous == "anonymous"

\* variant: the questionnaire starts at question 0
NewPhq9SessionFromZero ==
    [id |-> 1, user_id |-> Owner, session_type |-> "phq9",
     phq9_answers |-> EmptyMap, phq9_current_question |-> 0,
     phq9_score |-> None, phq9_severity |-> None, phq9_risk_level |-> None,
     depression_score |-> None, risk_level |-> None]

\* start_phq9: the document create_session stores
NewPhq9Session ==
    [id |-> 1, user_id |-> Owner, session_type |-> "phq9",
     phq9_answers |-> EmptyMap, phq9_current_question |-> 1,
     phq9_score |-> None, phq9_severity |-> None, phq9_risk_level |-> None,
     depression_score |-> None, risk_level |-> None]

\* update_session with the results of a completed questionnaire
CompletedSession(doc, answers) ==
    LET total_score == calculate_score(answers).value
        interpretation == interpret_score(total_score)
    IN  [doc EXCEPT !.phq9_answers = answers,
                    !.phq9_score = Some(total_score),
                    !.phq9_severity = Some(interpretation.severity),
                    !.phq9_risk_level = Some(interpretation.risk_level),
                    !.depression_score = Some((total_score * 1000) \div 27),
                    !.risk_level = Some(interpretation.risk_level)]

\* create_alert when interpretation['needs_escalation']
AlertsAfterCompletion(user, doc, answers) ==
    LET total_score == calculate_score(answers).value
        interpretation == interpret_score(total_score)
    IN  IF interpretation.needs_escalation
        THEN Append(alerts, [user_id |-> user, session_id |-> doc.id,
                             alert_type |-> "phq9_high_score",
                             phq9_score |-> total_score,
                             risk_level |-> interpretation.risk_level,
                             severity |-> interpretation.severity])
        ELSE alerts

\* routes/chatbot.py : POST /phq9/start
StartPhq9 ==
    /\ IsNone(phq9_session)
    /\ \E mood \in {"", "Sad", "Angry"} :
           IF mood # "" /\ mood \notin valid_moods
           THEN /\ resp' = [route |-> "start_phq9", status |-> 400]
                /\ UNCHANGED phq9_session
           ELSE /\ phq9_session' = Some(NewPhq9Session)
                /\ resp' = [route |-> "start_phq9", status |-> 200,
                            question_num |-> 1, is_complete |-> FALSE]
    /\ UNCHANGED <<call, sessions, typing_analyses, voice_analyses,
                   mood_checkins, digital_twin, now, alerts, requests>>

\* routes/chatbot.py : POST /phq9/answer
AnswerPhq9Question ==
    /\ Len(alerts) < MaxAlerts
    /\ \E user \in Users, raw \in DrawnAnswers :
        LET req == [user |-> user, answer |-> raw]
            Reject(code) ==
                /\ resp' = [route |-> "answer_phq9_question", request |-> req,
                            status |-> code]
                /\ UNCHANGED <<phq9_session, alerts>>
        IN  IF IsNone(phq9_session) THEN Reject(404)
            ELSE IF Val(phq9_session).user_id # user THEN Reject(403)
            ELSE IF Val(phq9_session).session_type # "phq9" THEN Reject(400)
            ELSE IF Val(phq9_session).phq9_current_question > 9 THEN Reject(400)
            ELSE IF IsNone(ParsedAnswers[raw]) THEN Reject(400)
            ELSE
              LET doc == Val(phq9_session)
                  current_question == doc.phq9_current_question
                  answers == Put(doc.phq9_answers, current_question,
                                 Val(ParsedAnswers[raw]))
              IN  IF is_complete(answers) /\ Raised(calculate_score(answers))
                  THEN Reject(500)
                  ELSE IF is_complete(answers)
                  THEN /\ phq9_session' = Some(CompletedSession(doc, answers))
                       /\ alerts' = AlertsAfterCompletion(user, doc, answers)
                       /\ resp' = [route |-> "answer_phq9_question",
                                   request |-> req, status |-> 200,
                                   question_num |-> 9, is_complete |-> TRUE]
                  ELSE /\ phq9_session' =
                              Some([doc EXCEPT
                                      !.phq9_answers = answers,
                                      !.phq9_current_question =
                                          Val(get_next_question(current_question))])
                       /\ alerts' = alerts
                       /\ resp' = [route |-> "answer_phq9_question",
                                   request |-> req, status |-> 200,
                                   question_num |->
                                       Val(get_next_question(current_question)),
                                   is_complete |-> FALSE]
    /\ UNCHANGED <<call, sessions, typing_analyses, voice_analyses,
                   mood_checkins, digital_twin, now, requests>>

\* routes/chatbot.py : POST /chat with the session_id of the PHQ-9 session;
\* the message is handled as the answer to the current question
ChatOnPhq9Session ==
    /\ Len(alerts) < MaxAlerts
    /\ ~IsNone(phq9_session)
    /\ Val(phq9_session).session_type = "phq9"
    /\ \E user \in {Owner}, raw \in ChatMessages :
        LET req == [user |-> user, answer |-> raw]
            doc == Val(phq9_session)
            stored == doc.phq9_current_question
            current_question == IF stored < 1 \/ stored > 9 THEN 1 ELSE stored
        IN  IF IsNone(ParsedMessages[raw])
            THEN /\ resp' = [route |-> "chat", request |-> req, status |-> 200,
                             intent |-> "phq9_error",
                             is_crisis |-> FALSE, needs_escalation |-> FALSE,
                             question_num |-> current_question]
                 /\ UNCHANGED <<phq9_session, alerts>>
            ELSE
              LET answers == Put(doc.phq9_answers, current_question,
                                 Val(ParsedMessages[raw]))
                  next == get_next_question(current_question)
                  next_question_num == IF IsNone(next) THEN 9 ELSE Val(next)
              IN  IF is_complete(answers) /\ Raised(calculate_score(answers))
                  THEN /\ resp' = [route |-> "chat", request |-> req,
                                   status |-> 500]
                       /\ UNCHANGED <<phq9_session, alerts>>
                  ELSE IF is_complete(answers)
                  THEN /\ phq9_session' = Some(CompletedSession(doc, answers))
                       /\ alerts' = AlertsAfterCompletion(user, doc, answers)
                       /\ resp' = [route |-> "chat", request |-> req,
                                   status |-> 200, intent |-> "phq9_complete",
                                   is_crisis |-> FALSE,
                                   needs_escalation |-> FALSE]
                  ELSE /\ phq9_session' =
                              Some([doc EXCEPT
                                      !.phq9_answers = answers,
                                      !.phq9_current_question = next_question_num])
                       /\ alerts' = alerts
                       /\ resp' = [route |-> "chat", request |-> req,
                                   status |-> 200, intent |-> "phq9_question",
                                   is_crisis |-> FALSE,
                                   needs_escalation |-> FALSE,
                                   question_num |-> next_question_num]
    /\ UNCHANGED <<call, sessions, typing_analyses, voice_analyses,
                   mood_checkins, digital_twin, now, requests>>

\* routes/chatbot.py : POST /chat without a session_id and with a message
\* that holds a crisis keyword: a chat session is created, get_response
\* returns the crisis result, an alert is created for an authenticated user
\* and the session is marked
ChatCrisisMessage ==
    /\ Len(alerts) < MaxAlerts
    /\ Cardinality(sessions) < MaxChatSessions
    /\ \E user \in {Owner, Anonymous}, raw \in DrawnCrisisMessages :
        LET req == [user |-> user, answer |-> raw]
            session_id == Cardinality(sessions) + 2
            is_crisis == CrisisDetected[raw]
        IN  /\ is_crisis
            /\ sessions' = sessions \cup
                   {[id |-> session_id, user_id |-> user,
                     session_type |-> "chat",
                     depression_score |-> Some(0),
                     risk_level |-> Some("severe"),
                     needs_escalation |-> TRUE]}
            /\ alerts' = IF user # Anonymous
                         THEN Append(alerts,
                                     [user_id |-> user, session_id |-> session_id,
                                      alert_type |-> "crisis", message |-> raw,
                                      risk_level |-> "severe",
                                      severity |-> "severe",
                                      depression_score |-> 0])
                         ELSE alerts
            /\ resp' = [route |-> "chat", request |-> req, status |-> 200,
                        intent |-> "crisis", is_crisis |-> TRUE,
                        needs_escalation |-> TRUE]
    /\ UNCHANGED <<call, typing_analyses, voice_analyses, mood_checkins,
                   digital_twin, now, phq9_session, requests>>

\* a session in which questions 1 to 8 were answered 2,2,2,2,2,2,1,1 (the
\* answers "2" and "1" given eight times) and question 9 is awaited
SessionAwaitingNinth ==
    [NewPhq9Session EXCEPT
        !.phq9_answers = [q \in 1..8 |-> IF q <= 6 THEN 2 ELSE 1],
        !.phq9_current_question = 9]

\* no session yet, or the session that awaits its ninth answer
InitPhq9 ==
    /\ call = [op |-> "none", done |-> TRUE]
    /\ sessions = {}
    /\ typing_analyses = {}
    /\ voice_analyses = {}
    /\ mood_checkins = {}
    /\ digital_twin = None
    /\ now = 0
    /\ resp = [route |-> "none"]
    /\ phq9_session \in {None, Some(SessionAwaitingNinth)}
    /\ alerts = <<>>
    /\ requests = {}

NextPhq9 ==
    \/ StartPhq9
    \/ AnswerPhq9Question
    \/ ChatOnPhq9Session
    \/ ChatCrisisMessage

SpecPhq9 == InitPhq9 /\ [][NextPhq9]_vars

(***************************************************************************)
(* services/batch_fake_detection.py, and the per-request typing analyses   *)
(* the analyze route stores.  Times (keystroke timings, pauses) are in     *)
(* tenths of a second, typing speeds in words per minute, error rates and  *)
(* scores in thousandths.  The 1e-6 added to a mean before a division is   *)
(* below this resolution and is left out.                                  *)
(***************************************************************************)
typing_batches ==
    <<[start |-> 1, end |-> 5, name |-> "initial_batch"],
      [start |-> 15, end |-> 20, name |-> "mid_batch"],
      [start |-> 30, end |-> 35, name |-> "late_batch"]>>

TypingWindows == {typing_batches[i] : i \in DOMAIN typing_batches}

\* should_check_batch: the batch whose last message current_count is, or None
RECURSIVE FirstBatchEndingAt(_, _)
FirstBatchEndingAt(batches, current_count) ==
    IF batches = <<>> THEN None
    ELSE IF /\ Head(batches).start <= current_count
            /\ current_count <= Head(batches).end
            /\ current_count = Head(batches).end
         THEN Some(Head(batches))
         ELSE FirstBatchEndingAt(Tail(batches), current_count)

should_check_batch(current_count) == FirstBatchEndingAt(typing_batches, current_count)

\* list.sort and sorted are stable: the place of seq[i] in the sorted list is
\* after every element that sorts before it and after the equal ones before it
SortedPosition(seq, i, reverse) ==
    Cardinality({j \in DOMAIN seq :
                    IF reverse THEN seq[j].created_at > seq[i].created_at
                    ELSE seq[j].created_at < seq[i].created_at})
    + Cardinality({j \in 1..(i - 1) : seq[j].created_at = seq[i].created_at})
    + 1

\* sorted(seq, key=created_at, reverse=reverse)
sorted_by_created_at(seq, reverse) ==
    [p \in DOMAIN seq |->
        seq[CHOOSE i \in DOMAIN seq : SortedPosition(seq, i, reverse) = p]]

\* query.stream(): the documents of the user in an order the store chooses:
\* by id, by id backwards, or the odd ids before the even ones
StreamOrders(store) ==
    LET n == Cardinality(store)
        doc(i) == CHOOSE a \in store : a.id = i
        half == (n + 1) \div 2
    IN  {[i \in 1..n |-> doc(i)],
         [i \in 1..n |-> doc(n + 1 - i)],
         [i \in 1..n |-> doc(IF i <= half THEN 2 * i - 1 ELSE 2 * (i - half))]}

\* firestore_service.py : get_user_typing_analyses, newest first
get_user_typing_analyses(stream) == sorted_by_created_at(stream, TRUE)

RECURSIVE SumOfSquares(_)
SumOfSquares(seq) ==
    IF seq = <<>> THEN 0 ELSE Head(seq) * Head(seq) + SumOfSquares(Tail(seq))

RECURSIVE Concat(_)
Concat(seqs) == IF seqs = <<>> THEN <<>> ELSE Head(seqs) \o Concat(Tail(seqs))

\* n * n * np.var(x), an integer
ScaledVariance(x) == Len(x) * SumOfSquares(x) - SumSeq(x) * SumSeq(x)

\* 1.0 - min(1.0, std / (avg + 1e-6)) in thousandths, for a list with
\* n * n * variance = scaled and sum = total: the ratio std / avg is rounded
\* up to a hundredth c / 100 and the consistency is placed in the middle of
\* the hundredth it lies in; the 1e-6 makes the ratio of a list with
\* std / avg = c / 100 fall just below c / 100
Consistency(scaled, total) ==
    IF scaled = 0 THEN 1000
    ELSE IF scaled > total * total THEN 0
    ELSE 1005 - 10 * (CHOOSE c \in 1..100 :
                         /\ 10000 * scaled <= c * c * total * total
                         /\ 10000 * scaled > (c - 1) * (c - 1) * total * total)

\* np.std of a list of tenths of a second, in thousandths of a second,
\* rounded down
StdThousandths(x) ==
    CHOOSE k \in 0..1000 :
        /\ k * k * Len(x) * Len(x) <= 10000 * ScaledVariance(x)
        /\ (k + 1) * (k + 1) * Len(x) * Len(x) > 10000 * ScaledVariance(x)

\* _aggregate_typing_features: the statistics of the lists the function
\* collects, in thousandths (seconds, seconds squared, ratios)
TypingFeatures(batch_analyses, all_timings, typing_speeds) ==
    LET n == Len(all_timings)
        m == Len(typing_speeds)
    IN  [speed_consistency |->
             Consistency(ScaledVariance(typing_speeds), SumSeq(typing_speeds)),
         timing_consistency |->
             IF n > 0 /\ SumSeq(all_timings) > 0
             THEN Consistency(ScaledVariance(all_timings), SumSeq(all_timings))
             ELSE 0,
         avg_error_rate |->
             IF m = 0 THEN 0
             ELSE SumSeq([i \in DOMAIN batch_analyses |->
                             batch_analyses[i].error_rate]) \div m,
         avg_pause_duration |->
             IF m = 0 THEN 0
             ELSE (100 * SumSeq([i \in DOMAIN batch_analyses |->
                                    batch_analyses[i].pause_duration])) \div m,
         timing_std |-> IF n = 0 THEN 0 ELSE StdThousandths(all_timings),
         timing_variance |->
             IF n = 0 THEN 0 ELSE (10 * ScaledVariance(all_timings)) \div (n * n),
         total_keystrokes |-> n]

\* _aggregate_typing_features: all_timings and typing_speeds are collected
\* once, then the features are computed from them
_aggregate_typing_features(batch_analyses) ==
    CHOOSE features \in
        {TypingFeatures(batch, all_timings, typing_speeds) :
            batch \in {batch_analyses},
            all_timings \in {Concat([i \in DOMAIN batch_analyses |->
                                        batch_analyses[i].keystroke_timings])},
            typing_speeds \in {[i \in DOMAIN batch_analyses |->
                                   batch_analyses[i].typing_speed]}} : TRUE

\* typing data submitted: steady keystrokes without errors, or varied
\* keystrokes with a 5% error rate
SteadyTyping ==
    [keystroke_timings |-> <<5, 5>>, typing_speed |-> 40,
     pause_duration |-> 5, error_rate |-> 0]

VariedTyping ==
    [keystroke_timings |-> <<1, 9>>, typing_speed |-> 40,
     pause_duration |-> 5, error_rate |-> 50]

DrawnTypingData == {SteadyTyping, VariedTyping}

\* analyze_typing_batch, once the analyses are fetched and sorted
BatchResult(sorted_analyses, batch_info) ==
    IF Len(sorted_analyses) < batch_info.end
    THEN [batch_name |-> batch_info.name,
          actual_count |-> Len(sorted_analyses),
          error |-> "Not enough typing analyses for this batch"]
    ELSE LET batch_analyses ==
                 SubSeq(sorted_analyses, batch_info.start, batch_info.end)
         IN  CHOOSE result \in
                 {[batch_name |-> batch_info.name,
                   messages_analyzed |-> Len(batch_analyses),
                   is_fake |->
                       batch_is_fake(_detect_fake_typing_patterns(features)),
                   fake_score |-> _detect_fake_typing_patterns(features),
                   features |-> features] :
                     features \in {_aggregate_typing_features(batch_analyses)}} :
                 TRUE

\* analyze_typing_batch that takes the analyses in the order they are fetched
AnalyzeTypingBatchUnsorted(all_analyses, batch_info) ==
    BatchResult(all_analyses, batch_info)

\* analyze_typing_batch on the analyses get_user_typing_analyses returned
analyze_typing_batch(all_analyses, batch_info) ==
    CHOOSE result \in {BatchResult(sorted_analyses, batch_info) :
                          sorted_analyses \in
                              {sorted_by_created_at(all_analyses, FALSE)}} : TRUE

\* typing_analysis.py : _calculate_depression_score
_calculate_depression_score(data) ==
    LET n == Len(data.keystroke_timings)
        timing_variance ==
            IF n = 0 THEN 0
            ELSE (10 * ScaledVariance(data.keystroke_timings)) \div (n * n)
        speed_factor == Max(0, 1000 - 25 * data.typing_speed)
        pause_factor == Min(1000, 100 * data.pause_duration)
        error_factor == Min(1000, 10 * data.error_rate)
        variance_factor == Min(1000, timing_variance)
    IN  Min(1000, Max(0, (300 * speed_factor + 300 * pause_factor
                            + 200 * error_factor + 200 * variance_factor)
                           \div 1000))

\* fake_detection.py : detect_fake_typing; the timing regularity is 0.8, 0.5
\* or 0.2, the speed and pause indicators are the constants 0.3 and 0.2
detect_fake_typing(data) ==
    LET t == data.keystroke_timings
        timing_regularity ==
            IF Len(t) < 2 \/ SumSeq(t) = 0 THEN 0
            ELSE IF 100 * ScaledVariance(t) < SumSeq(t) * SumSeq(t) THEN 800
            ELSE IF 10000 * ScaledVariance(t) < 225 * SumSeq(t) * SumSeq(t) THEN 500
            ELSE 200
        fake_score == (400 * timing_regularity + 300 * 300 + 300 * 200) \div 1000
    IN  [is_fake |-> fake_score > 600, confidence |-> fake_score]

(***************************************************************************)
(* SpecBatch: concurrent POST /typing/analyze requests of one user.  The   *)
(* handler takes no lock and opens no transaction, and the store is shared *)
(* by every server process, so the store calls of different requests       *)
(* interleave: a request records its analysis, later reads the user's      *)
(* analyses and decides, later evaluates the batch.  Requests carry no     *)
(* session_id.                                                             *)
(***************************************************************************)
InFlight == {r \in requests : r.pc # "done"}

\* typing_analysis.py : analyze_patterns
analyze_patterns(data) ==
    [depression_score |-> _calculate_depression_score(data),
     risk_level |-> _get_risk_level(_calculate_depression_score(data))]

\* create_typing_analysis: the n-th analysis document of the user
NewTypingAnalysis(n, data, fake_result) ==
    [id |-> n, created_at |-> n,
     is_fake |-> fake_result.is_fake,
     keystroke_timings |-> data.keystroke_timings,
     typing_speed |-> data.typing_speed,
     pause_duration |-> data.pause_duration,
     error_rate |-> data.error_rate]

\* the store after k earlier requests, handled one after the other, each
\* without session_id and with steady typing
EarlierAnalyses(k) ==
    {NewTypingAnalysis(i, SteadyTyping, detect_fake_typing(SteadyTyping)) : i \in 1..k}

EarlierSessions(k) ==
    {[id |-> i, start_time |-> i,
      risk_level |-> Some(analyze_patterns(SteadyTyping).risk_level),
      depression_score |-> Some(analyze_patterns(SteadyTyping).depression_score)] :
        i \in 1..k}

\* the response of analyze_typing
TypingResponse(r, current_count, batch_result) ==
    [session_id |-> r.session_id,
     depression_score |-> r.analysis_result.depression_score,
     risk_level |-> r.analysis_result.risk_level,
     is_fake |-> IF IsNone(batch_result) THEN r.fake_result.is_fake
                 ELSE IF "is_fake" \in DOMAIN Val(batch_result)
                      THEN Val(batch_result).is_fake ELSE FALSE,
     fake_confidence |->
         Max(IF ~IsNone(batch_result) /\ "fake_score" \in DOMAIN Val(batch_result)
             THEN Val(batch_result).fake_score ELSE 0,
             r.fake_result.confidence),
     batch_analysis |-> batch_result,
     total_chats |-> current_count]

\* analyze_typing up to update_session: analyse the data, create the
\* session, save the analysis, update the session
RecordTypingAnalysis ==
    /\ Cardinality(requests) < MaxBatchRequests
    /\ Cardinality(InFlight) < MaxConcurrent
    /\ \E data \in DrawnTypingData :
       \E analysis_result \in {analyze_patterns(data)},
          fake_result \in {detect_fake_typing(data)} :
            /\ sessions' = update_session(sessions \cup {NewSession(sessions)},
                                          NewSession(sessions).id,
                                          analysis_result.depression_score,
                                          analysis_result.risk_level)
            /\ typing_analyses' = typing_analyses \cup
                   {NewTypingAnalysis(Cardinality(typing_analyses) + 1, data,
                                      fake_result)}
            /\ requests' = requests \cup
                   {[id |-> Cardinality(requests) + 1, pc |-> "recorded",
                     analysis_result |-> analysis_result,
                     fake_result |-> fake_result,
                     session_id |-> NewSession(sessions).id,
                     current_count |-> None, batch_info |-> None,
                     response |-> None]}
    /\ UNCHANGED <<call, voice_analyses, mood_checkins, digital_twin, now, resp,
                   phq9_session, alerts>>

\* analyze_typing: get_user_typing_analyses, len, should_check_batch; without
\* a checkpoint the response is returned
CheckTypingBatch ==
    \E r \in requests :
        /\ r.pc = "recorded"
        /\ \E current_count \in {Cardinality(typing_analyses)} :
           \E batch_info \in {should_check_batch(current_count)} :
             IF IsNone(batch_info)
             THEN /\ requests' = (requests \ {r}) \cup
                        {[r EXCEPT !.pc = "done",
                                   !.current_count = Some(current_count),
                                   !.response =
                                       Some(TypingResponse(r, current_count, None))]}
                  /\ resp' = [route |-> "analyze_typing", status |-> 200,
                              risk_level |-> r.analysis_result.risk_level]
             ELSE /\ requests' = (requests \ {r}) \cup
                        {[r EXCEPT !.pc = "evaluate",
                                   !.current_count = Some(current_count),
                                   !.batch_info = batch_info]}
                  /\ resp' = resp
        /\ UNCHANGED <<call, sessions, typing_analyses, voice_analyses,
                       mood_checkins, digital_twin, now, phq9_session, alerts>>

\* analyze_typing: analyze_typing_batch, create_alert when the batch is fake,
\* and the response
EvaluateTypingBatch ==
    \E r \in requests :
        /\ r.pc = "evaluate"
        /\ \E stream \in StreamOrders(typing_analyses) :
           \E all_analyses \in {get_user_typing_analyses(stream)} :
           \E batch_result \in
                 {analyze_typing_batch(all_analyses, Val(r.batch_info))} :
             LET fake == /\ "is_fake" \in DOMAIN batch_result
                         /\ batch_result.is_fake
                         /\ batch_result.fake_score >= 600
             IN  /\ alerts' =
                       IF fake
                       THEN Append(alerts,
                                   [user_id |-> Owner,
                                    alert_type |-> "batch_fake_detected",
                                    severity |-> IF batch_result.fake_score >= 800
                                                 THEN "high" ELSE "medium",
                                    batch_name |-> batch_result.batch_name])
                       ELSE alerts
                 /\ requests' = (requests \ {r}) \cup
                       {[r EXCEPT !.pc = "done",
                                  !.response =
                                      Some(TypingResponse(r, Val(r.current_count),
                                                          Some(batch_result)))]}
                 /\ resp' = [route |-> "analyze_typing", status |-> 200,
                             risk_level |-> r.analysis_result.risk_level]
        /\ UNCHANGED <<call, sessions, typing_analyses, voice_analyses,
                       mood_checkins, digital_twin, now, phq9_session>>

\* get_user_batch_status that evaluates every window
BatchStatusEntryEvaluated(all_analyses, batch) ==
    analyze_typing_batch(all_analyses, batch)

\* get_user_batch_status: the result of one window, evaluated when the count
\* has reached its end and pending otherwise
BatchStatusEntry(all_analyses, batch) ==
    IF Len(all_analyses) >= batch.end
    THEN analyze_typing_batch(all_analyses, batch)
    ELSE [batch_name |-> batch.name,
          status |-> "pending",
          current_count |-> Len(all_analyses),
          required_count |-> batch.end]

\* get_user_batch_status: the overall assessment over the batches that carry
\* is_fake
OverallAssessment(batch_results) ==
    LET completed_batches ==
            SelectSeq(batch_results, LAMBDA r : "is_fake" \in DOMAIN r)
        fake_scores == [i \in DOMAIN completed_batches |->
                           IF "fake_score" \in DOMAIN completed_batches[i]
                           THEN completed_batches[i].fake_score ELSE 0]
        avg_fake_score ==
            IF completed_batches = <<>> THEN 0
            ELSE SumSeq(fake_scores) \div Len(fake_scores)
    IN  [is_fake |-> completed_batches # <<>> /\ avg_fake_score >= 500,
         avg_fake_score |-> avg_fake_score,
         batches_analyzed |-> Len(completed_batches)]

\* batch_fake_detection.py : get_user_batch_status for typing
get_user_batch_status(all_analyses) ==
    CHOOSE result \in
        {[user_id |-> Owner,
          batch_type |-> "typing",
          total_count |-> Len(all_analyses),
          batches |-> batch_results,
          overall_assessment |-> OverallAssessment(batch_results)] :
            batch_results \in
                {[i \in DOMAIN typing_batches |->
                     BatchStatusEntry(all_analyses, typing_batches[i])]}} : TRUE

\* routes/typing.py : GET /batch-status
GetTypingBatchStatus ==
    /\ \E stream \in StreamOrders(typing_analyses) :
       \E all_analyses \in {get_user_typing_analyses(stream)} :
       \E status \in {get_user_batch_status(all_analyses)} :
            resp' = [route |-> "typing_batch_status", status |-> 200,
                     body |-> status]
    /\ UNCHANGED <<call, sessions, typing_analyses, voice_analyses, mood_checkins,
                   digital_twin, now, phq9_session, alerts, requests>>

InitBatch ==
    /\ call = [op |-> "none", done |-> TRUE]
    /\ \E k \in 0..MaxEarlierAnalyses :
        /\ sessions = EarlierSessions(k)
        /\ typing_analyses = EarlierAnalyses(k)
    /\ voice_analyses = {}
    /\ mood_checkins = {}
    /\ digital_twin = None
    /\ now = 0
    /\ resp = [route |-> "none"]
    /\ phq9_session = None
    /\ alerts = <<>>
    /\ requests = {}

NextBatch ==
    \/ RecordTypingAnalysis
    \/ CheckTypingBatch
    \/ EvaluateTypingBatch
    \/ GetTypingBatchStatus

SpecBatch == InitBatch /\ [][NextBatch]_vars

\* every request that has started is run to its response, and requests keep
\* arriving up to the bound
SpecBatchFair == SpecBatch /\ WF_vars(NextBatch)

(***************************************************************************)
(* Properties of the combiner (Spec)                                       *)
(***************************************************************************)
CombinerDone == call.op \in {"combine_scores", "analyze_call"} /\ call.done

DepressionKnownHigh ==
    /\ ~IsNone(call.args.depression_score)
    /\ Val(call.args.depression_score) >= 700

\* the sum of every bonus whose condition holds, before cap and clamp
RawBonusSum(tf, bf, dep) ==
      (IF IsNone(dep) \/ Val(dep) < 300
       THEN (IF 5 * tf.nonsense_ratio >= 2000 THEN 200 ELSE tf.nonsense_ratio \div 2)
       ELSE 0)
    + (IF tf.token_count >= 21 /\ tf.unique_word_ratio <= 299 THEN 100 ELSE 0)
    + (IF tf.joke_word_count > 2 THEN 100 ELSE 0)
    + (IF tf.abuse_word_count > 2 THEN 150 ELSE 0)
    + (IF bf.call_duration_sec <= 14 /\ bf.repeat_call_count_last_hour > 2
       THEN 200 ELSE 0)

\* C1 - safety override dominance: whenever the depression score is known and
\* at least 0.7, the returned fake_score is at most 0.3 and the result is the
\* low label with action treat_as_normal, whatever bonuses fired before.
C1_SafetyOverrideDominance ==
    (CombinerDone /\ DepressionKnownHigh) =>
        /\ call.result.fake_score <= 300
        /\ call.result.risk_label = "low_fake_risk"
        /\ call.result.action = "treat_as_normal"

\* a call with high depression in which bonuses pushed the raw sum to 0.7 or
\* more, so the cap is what keeps the label low
C1_Witness ==
    /\ CombinerDone
    /\ DepressionKnownHigh
    /\ call.args.p_fake_model
         + RawBonusSum(call.result.text_features,
                       call.result.behavior_features,
                       call.args.depression_score) >= 700
    /\ "joke_words" \in DOMAIN call.result.word_contributions
    /\ "suspicious_behavior" \in DOMAIN call.result.word_contributions
    /\ call.result.fake_score = 300

\* C2 - clamping: the fake_score of the combiner and the bot_score of each of
\* the six voice consistency analyses lie in [0,1] for every input.
C2_ScoresClamped ==
    /\ CombinerDone =>
           (call.result.fake_score >= 0 /\ call.result.fake_score <= 1000)
    /\ (call.op \in SignalOps \cup {"_analyze_mfcc_anomalies",
                                    "_analyze_spectral_characteristics"}
          /\ call.done) =>
           (call.result.bot_score >= 0 /\ call.result.bot_score <= 1000)

\* a combiner call whose model probability plus bonuses exceeds 1
C2_Witness ==
    /\ CombinerDone
    /\ call.args.p_fake_model \in 0..1000
    /\ call.args.p_fake_model
         + RawBonusSum(call.result.text_features,
                       call.result.behavior_features,
                       call.args.depression_score) > 1000
    /\ call.result.fake_score = 1000

\* C3 - monotonic risk labelling: label and action are determined by the final
\* fake_score alone, with breakpoints 0.4 and 0.7, and are always paired
\* high/flag, medium/warning, low/normal.
C3_MonotonicRiskLabel ==
    CombinerDone =>
        LET r == call.result
        IN  /\ (r.fake_score >= 700) <=>
                   (r.risk_label = "high_fake_risk")
            /\ (r.fake_score >= 400 /\ r.fake_score < 700) <=>
                   (r.risk_label = "medium_fake_risk")
            /\ (r.fake_score < 400) <=>
                   (r.risk_label = "low_fake_risk")
            /\ (r.risk_label = "high_fake_risk") <=>
                   (r.action = "flag_for_staff_review_low_priority")
            /\ (r.risk_label = "medium_fake_risk") <=>
                   (r.action = "show_fake_warning_but_treat_as_normal")
            /\ (r.risk_label = "low_fake_risk") <=>
                   (r.action = "treat_as_normal")

\* a call whose final score is exactly the upper breakpoint 0.7
C3_Witness ==
    /\ CombinerDone
    /\ call.result.fake_score = 700
    /\ call.result.risk_label = "high_fake_risk"
    /\ "joke_words" \in DOMAIN call.result.word_contributions

\* C4 - the combiner's result equals the reference: model probability plus the
\* bonuses whose conditions hold (nonsense bonus only when depression is
\* unknown or below 0.3), capped at 0.3 when depression is known and at least
\* 0.7, then clamped to [0,1].
C4_CombineMatchesReference ==
    CombinerDone =>
        LET raw == call.args.p_fake_model
                     + RawBonusSum(call.result.text_features,
                                   call.result.behavior_features,
                                   call.args.depression_score)
            capped == IF DepressionKnownHigh /\ raw > 300 THEN 300 ELSE raw
            final == IF capped > 1000 THEN 1000
                     ELSE IF capped < 0 THEN 0 ELSE capped
        IN  call.result.fake_score = final

\* example scenario 1 of the specification: the prank-call transcript
C4_Witness ==
    /\ call.op = "analyze_call"
    /\ call.done
    /\ call.args.transcript = ExampleTranscript
    /\ call.args.p_fake_model = 600
    /\ call.args.call_duration_sec = 8
    /\ call.args.repeat_call_count_last_hour = 4
    /\ call.args.depression_score = Some(100)
    /\ call.result.text_features.joke_word_count = 4
    /\ call.result.text_features.nonsense_ratio = 0
    /\ call.result.fake_score = 900
    /\ call.result.risk_label = "high_fake_risk"

\* C5 - the suspicious-token set is the union of all nonsense, joke and abuse
\* tokens of the transcript for every input, also when the depression gate
\* suppressed the nonsense bonus.  Stated for model probabilities in [0,1].
C5_SuspiciousTokensAreUnion ==
    (CombinerDone /\ call.args.p_fake_model \in 0..1000) =>
        call.result.suspicious_words =
            call.result.text_features.nonsense_words
              \cup call.result.text_features.joke_words_found
              \cup call.result.text_features.abuse_words_found

\* C6 - as claimed: the returned fake_score equals the sum of all recorded
\* contributions.  Stated for model probabilities in [0,1].
C6_ScoreEqualsContributionSum ==
    (CombinerDone /\ call.args.p_fake_model \in 0..1000) =>
        call.result.fake_score =
            SumMap(call.result.word_contributions,
                   DOMAIN call.result.word_contributions)

\* C6 - as amended: the returned fake_score equals the sum of all recorded
\* contributions clamped to [0,1]; the final clamp records no contribution.
C6_ScoreEqualsClampedContributionSum ==
    CombinerDone =>
        LET total == SumMap(call.result.word_contributions,
                            DOMAIN call.result.word_contributions)
        IN  call.result.fake_score =
                (IF total < 0 THEN 0 ELSE IF total > 1000 THEN 1000 ELSE total)

\* a call in which the safety adjustment was recorded and one in which the
\* contributions exceed 1 are both covered; this one is the former
C6_Witness ==
    /\ CombinerDone
    /\ "depression_safety_adjustment" \in DOMAIN call.result.word_contributions
    /\ "abuse_words" \in DOMAIN call.result.word_contributions
    /\ call.result.fake_score = 300

(***************************************************************************)
(* Properties of the risk aggregation (Spec)                               *)
(***************************************************************************)
RiskDone == call.op = "_determine_overall_risk" /\ call.done

\* the ordered scale low < moderate < high < severe
RiskRank(level) ==
    CASE level = "low" -> 0
      [] level = "moderate" -> 1
      [] level = "high" -> 2
      [] level = "severe" -> 3

\* C7 - risk aggregation is a max: the aggregated risk_level is the higher of
\* the session-derived and the mood-derived risk on low < moderate < high <
\* severe.
C7_RiskIsMax ==
    RiskDone =>
        LET r == call.result
        IN  /\ r.risk_level \in {r.session_risk, r.mood_risk}
            /\ RiskRank(r.risk_level) >= RiskRank(r.session_risk)
            /\ RiskRank(r.risk_level) >= RiskRank(r.mood_risk)

\* the example of the specification: session moderate, mood severe
C7_Witness ==
    /\ RiskDone
    /\ call.result.session_risk = "moderate"
    /\ call.result.mood_risk = "severe"
    /\ call.result.risk_level = "severe"

\* the labels carried by the sessions that have fewer than 5 later sessions
LatestFiveLabels(seq) ==
    {Val(seq[i].risk_level) :
        i \in {k \in DOMAIN seq :
                 /\ seq[k].risk_level # None
                 /\ Cardinality({j \in DOMAIN seq :
                        seq[j].start_time > seq[k].start_time}) < 5}}

\* C10 - session-derived risk is the highest label among the 5 sessions with
\* the latest start times; older sessions and sessions without a label do
\* not count, and no labelled session among them gives low.
C10_SessionRiskFromLatestFive ==
    RiskDone =>
        LET labels == LatestFiveLabels(call.args.sessions)
        IN  /\ labels = {} => call.result.session_risk = "low"
            /\ labels # {} =>
                   /\ call.result.session_risk \in labels
                   /\ \A l \in labels :
                          RiskRank(l) <= RiskRank(call.result.session_risk)

\* six sessions, given oldest first: the oldest is severe, the five latest
\* reach moderate only
C10_Witness ==
    /\ RiskDone
    /\ Len(call.args.sessions) = 6
    /\ call.args.sessions[1].start_time = 1
    /\ call.args.sessions[1].risk_level = Some("severe")
    /\ call.args.sessions[2].risk_level = None
    /\ call.args.sessions[6].risk_level = Some("moderate")
    /\ call.result.session_risk = "moderate"

(***************************************************************************)
(* Properties of the digital-twin routes (SpecTwin)                        *)
(***************************************************************************)
\* the request just answered ran the Risk Aggregator (update_profile)
AggregatorRan ==
    \/ resp.route = "update_digital_twin"
    \/ resp.route = "create_mood_checkin" /\ resp.status = 200

StoredProfile == Val(digital_twin).mental_health_profile

IsRiskProfile(profile) ==
    {"total_sessions", "average_depression_score", "risk_level"}
        \subseteq DOMAIN profile

\* the risk the aggregator derives from the collections as they are now
CurrentRisk ==
    _determine_overall_risk(get_user_sessions(sessions),
                            get_user_mood_checkins(mood_checkins, 100, now - 30),
                            now)

\* C8 - every run of update_profile, the first one for a user without a
\* stored profile included, stores a profile that carries total_sessions,
\* the average score and the risk_level computed from the user's current
\* sessions and mood check-ins.
C8_EveryRunStoresRiskProfile ==
    AggregatorRan =>
        /\ ~IsNone(digital_twin)
        /\ IsRiskProfile(StoredProfile)
        /\ StoredProfile.total_sessions = Cardinality(sessions)
        /\ StoredProfile.risk_level = CurrentRisk

\* the analysis and check-in routes that record an interaction
InteractionRecorded ==
    /\ resp.route \in {"analyze_typing", "analyze_voice", "create_mood_checkin"}
    /\ resp.status = 200

\* C9 - once a session, a typing or voice analysis or a mood check-in is
\* stored, the profile is recomputed by the same request: a computed profile
\* that is stored when such a request has been answered counts every
\* session and analysis recorded and carries the current risk.
C9_ProfileFollowsEveryInteraction ==
    (InteractionRecorded /\ ~IsNone(digital_twin) /\ IsRiskProfile(StoredProfile)) =>
        /\ StoredProfile.total_sessions = Cardinality(sessions)
        /\ StoredProfile.typing_analyses_count = Cardinality(typing_analyses)
        /\ StoredProfile.voice_analyses_count = Cardinality(voice_analyses)
        /\ StoredProfile.risk_level = CurrentRisk
(***************************************************************************)
(* C11: mood-derived risk                                                  *)
(***************************************************************************)
MoodRiskDone == call.op = "_calculate_mood_risk" /\ call.done

\* the positions of the check-ins created in the last 7 days, and of the
\* Sad or Anxious ones among them
WindowCheckins ==
    {i \in DOMAIN call.args.mood_checkins :
        call.args.mood_checkins[i].created_at >= call.args.today - 7}

WindowNegatives ==
    {i \in WindowCheckins :
        call.args.mood_checkins[i].mood \in {"Sad", "Anxious"}}

\* C11 - mood-derived risk is the band of r = negatives / check-ins over the
\* check-ins of the last 7 days only: r >= 0.7 severe, r >= 0.5 high,
\* r >= 0.3 moderate, else low, and low when the window holds no check-in.
C11_MoodRiskBands ==
    MoodRiskDone =>
        LET n == Cardinality(WindowCheckins)
            k == Cardinality(WindowNegatives)
        IN  call.result =
                (IF n = 0 THEN "low"
                 ELSE IF 10 * k >= 7 * n THEN "severe"
                 ELSE IF 10 * k >= 5 * n THEN "high"
                 ELSE IF 10 * k >= 3 * n THEN "moderate"
                 ELSE "low")

\* 3 negatives of 10 check-ins in the window (r = 0.3 exactly) next to older
\* negative check-ins that would raise the ratio: the result is moderate
C11_Witness ==
    /\ MoodRiskDone
    /\ Cardinality(WindowCheckins) = 10
    /\ Cardinality(WindowNegatives) = 3
    /\ Len(call.args.mood_checkins) > 10
    /\ \E i \in DOMAIN call.args.mood_checkins :
           /\ i \notin WindowCheckins
           /\ call.args.mood_checkins[i].mood \in {"Sad", "Anxious"}
    /\ call.result = "moderate"

(***************************************************************************)
(* C12: the trend of the depression scores                                 *)
(***************************************************************************)
TrendDone == call.op = "_calculate_trends" /\ call.done

\* the scored sessions among the 5 latest by start time, and among the rest
RecentScored ==
    {i \in DOMAIN call.args.sessions :
        /\ ~IsNone(call.args.sessions[i].depression_score)
        /\ Cardinality({j \in DOMAIN call.args.sessions :
                           call.args.sessions[j].start_time
                             > call.args.sessions[i].start_time}) < 5}

EarlierScored ==
    {i \in DOMAIN call.args.sessions :
        /\ ~IsNone(call.args.sessions[i].depression_score)
        /\ i \notin RecentScored}

RECURSIVE ScoreTotal(_)
ScoreTotal(S) ==
    IF S = {} THEN 0
    ELSE LET i == CHOOSE x \in S : TRUE
         IN  Val(call.args.sessions[i].depression_score) + ScoreTotal(S \ {i})

TrendComputed == "trend" \in DOMAIN call.result.trends

DecliningListed ==
    \E i \in DOMAIN call.result.risk_factors :
        call.result.risk_factors[i] = "Declining mental health trend"

Phq9Doc == Val(phq9_session)

Phq9Completed == ~IsNone(phq9_session) /\ ~IsNone(Phq9Doc.phq9_score)

Phq9Incomplete == ~IsNone(phq9_session) /\ IsNone(Phq9Doc.phq9_score)

\* what the drawn answers mean: "0" and "NEVER" are 0, " 3 " and the Sinhala
\* 'every day' are 3; "7" and "idk" are malformed
WellFormedAnswers ==
    {<<"0">>, <<"N", "E", "V", "E", "R">>, <<" ", "3", " ">>,
     <<"ස", "ැ", "ම", "ද", "ා">>}

MalformedAnswers == {<<"7">>, <<"i", "d", "k">>}

AnswerMeaning(raw) ==
    IF raw \in {<<"0">>, <<"N", "E", "V", "E", "R">>} THEN 0 ELSE 3

\* the step handles an answer submitted on /phq9/answer by the session's
\* owner, or on /chat
AnswerSubmitted ==
    /\ resp'.route \in {"answer_phq9_question", "chat"}
    /\ resp'.route = "answer_phq9_question" => resp'.request.user = Owner

\* C13 - in a session awaiting question k, a well-formed answer records
\* exactly answers[k] = score, leaves the earlier answers unchanged and, for
\* k < 9, sets current_question to k + 1: one question per accepted answer,
\* in the order 1, 2, ..., 9.
C13_AnswerAdvancesOneQuestion ==
    [][(/\ Phq9Incomplete
        /\ AnswerSubmitted
        /\ resp'.request.answer \in WellFormedAnswers)
       => LET k == Phq9Doc.phq9_current_question
              score == AnswerMeaning(resp'.request.answer)
          IN  /\ k \in 1..9
              /\ ~IsNone(phq9_session')
              /\ Val(phq9_session').phq9_answers =
                     [q \in (DOMAIN Phq9Doc.phq9_answers) \cup {k} |->
                         IF q = k THEN score ELSE Phq9Doc.phq9_answers[q]]
              /\ DOMAIN Val(phq9_session').phq9_answers = 1..k
              /\ k < 9 => /\ Val(phq9_session').phq9_current_question = k + 1
                          /\ IsNone(Val(phq9_session').phq9_score)
              /\ resp'.status = 200]_vars

\* question 4 was just answered with 3 on /phq9/answer: four answers are
\* recorded and question 5 is awaited
C13_Witness ==
    /\ Phq9Incomplete
    /\ resp.route = "answer_phq9_question"
    /\ resp.status = 200
    /\ resp.request.answer = <<" ", "3", " ">>
    /\ Phq9Doc.phq9_current_question = 5
    /\ DOMAIN Phq9Doc.phq9_answers = 1..4
    /\ Phq9Doc.phq9_answers[4] = 3

C15_CompletedSessionImmutable ==
    [][Phq9Completed => (phq9_session' = phq9_session /\ alerts' = alerts)]_vars

\* C16 - in every state of a PHQ-9 session current_question is in 1..9, the
\* number of recorded answers is current_question - 1 while the session is
\* incomplete, and answers 1..9 are recorded once it is completed.
C16_AnswersMatchCurrentQuestion ==
    ~IsNone(phq9_session) =>
        /\ Phq9Doc.phq9_current_question \in 1..9
        /\ Phq9Incomplete =>
              Cardinality(DOMAIN Phq9Doc.phq9_answers)
                  = Phq9Doc.phq9_current_question - 1
        /\ Phq9Completed =>
              /\ DOMAIN Phq9Doc.phq9_answers = 1..9
              /\ Cardinality(DOMAIN Phq9Doc.phq9_answers) = 9

\* the ninth answer was just accepted on /chat: the session is completed
\* with nine answers
C16_Witness ==
    /\ Phq9Completed
    /\ resp.route = "chat"
    /\ resp.intent = "phq9_complete"
    /\ DOMAIN Phq9Doc.phq9_answers = 1..9
    /\ Phq9Doc.phq9_current_question = 9
    /\ Phq9Doc.phq9_answers[1] = 3

\* C17 - a PHQ-9 session has a stored total exactly when answers to all nine
\* questions are recorded; the total is the sum of the nine answers and lies
\* in 0..27; and the step that completes a session is the acceptance of its
\* ninth answer (eight answers recorded before, question 9 awaited).
C17_TotalIffNineAnswers ==
    /\ [](~IsNone(phq9_session) =>
            /\ ~IsNone(Phq9Doc.phq9_score)
                  <=> (\A q \in 1..9 : q \in DOMAIN Phq9Doc.phq9_answers)
            /\ ~IsNone(Phq9Doc.phq9_score) =>
                  /\ Val(Phq9Doc.phq9_score) =
                        Phq9Doc.phq9_answers[1] + Phq9Doc.phq9_answers[2]
                      + Phq9Doc.phq9_answers[3] + Phq9Doc.phq9_answers[4]
                      + Phq9Doc.phq9_answers[5] + Phq9Doc.phq9_answers[6]
                      + Phq9Doc.phq9_answers[7] + Phq9Doc.phq9_answers[8]
                      + Phq9Doc.phq9_answers[9]
                  /\ Val(Phq9Doc.phq9_score) \in 0..27)
    /\ [][(Phq9Incomplete /\ ~IsNone(phq9_session')
              /\ ~IsNone(Val(phq9_session').phq9_score))
          => /\ DOMAIN Phq9Doc.phq9_answers = 1..8
             /\ Phq9Doc.phq9_current_question = 9
             /\ resp'.status = 200]_vars

\* nine answers of 3 were accepted: the stored total is 27
C17_Witness ==
    /\ Phq9Completed
    /\ Val(Phq9Doc.phq9_score) = 27
    /\ \A q \in 1..9 : Phq9Doc.phq9_answers[q] = 3

\* the alert create_alert stores for a completed questionnaire
EscalationAlert(user, total) ==
    [user_id |-> user, session_id |-> 1, alert_type |-> "phq9_high_score",
     phq9_score |-> total,
     risk_level |-> "severe",
     severity |-> IF total <= 19 THEN "moderately_severe" ELSE "severe"]

\* the alerts created for completed questionnaires
Phq9Alerts(a) == SelectSeq(a, LAMBDA x : x.alert_type = "phq9_high_score")

\* the step completes the questionnaire (or completes it once more)
CompletionStep ==
    \/ resp'.route = "answer_phq9_question" /\ resp'.status = 200
         /\ resp'.is_complete
    \/ resp'.route = "chat" /\ resp'.status = 200
         /\ resp'.intent = "phq9_complete"

\* C18 - interpret_score maps every total 0..27 to one band (0-4 minimal/low,
\* 5-9 mild/moderate, 10-14 moderate/high, 15-19 moderately_severe/severe,
\* 20-27 severe/severe) with needs_escalation true exactly from 15 on, rejects
\* totals outside 0..27, and a completion creates an escalation alert exactly
\* when the stored total is 15 or more.
C18_BandsAndEscalation ==
    /\ [](\A t \in (0 - 3)..30 :
            IF t < 0 \/ t > 27 THEN Raised(interpret_score(t))
            ELSE /\ ~Raised(interpret_score(t))
                 /\ interpret_score(t).severity =
                       (IF t \in 0..4 THEN "minimal"
                        ELSE IF t \in 5..9 THEN "mild"
                        ELSE IF t \in 10..14 THEN "moderate"
                        ELSE IF t \in 15..19 THEN "moderately_severe"
                        ELSE "severe")
                 /\ interpret_score(t).risk_level =
                       (IF t \in 0..4 THEN "low"
                        ELSE IF t \in 5..9 THEN "moderate"
                        ELSE IF t \in 10..14 THEN "high"
                        ELSE "severe")
                 /\ interpret_score(t).needs_escalation = (t >= 15))
    /\ [][IF CompletionStep
          THEN LET total == Val(Val(phq9_session').phq9_score)
               IN  alerts' = IF total >= 15
                             THEN Append(alerts,
                                         EscalationAlert(resp'.request.user, total))
                             ELSE alerts
          ELSE Phq9Alerts(alerts') = Phq9Alerts(alerts)]_vars

\* a questionnaire completed with total 15 (five answers of 3, four of 0):
\* moderately_severe, and exactly one alert, for total 15
C18_Witness ==
    /\ Phq9Completed
    /\ Val(Phq9Doc.phq9_score) = 15
    /\ Val(Phq9Doc.phq9_severity) = "moderately_severe"
    /\ alerts = <<EscalationAlert(Owner, 15)>>


(***************************************************************************)
(* Properties of the batch checkpoints (SpecBatch)                         *)
(***************************************************************************)
\* the requests that took window b as their checkpoint
CheckpointRequests(b) == {r \in requests : r.batch_info = Some(b)}

\* the batch_fake_detected alerts created for window b
BatchAlerts(b) ==
    {i \in DOMAIN alerts : /\ alerts[i].alert_type = "batch_fake_detected"
                           /\ alerts[i].batch_name = b.name}

\* C19: under any interleaving of concurrent analyze requests of one user, no
\* window is taken as a checkpoint by two requests and at most one
\* batch_fake_detected alert is created per window.
C19_WindowFiredAtMostOnce ==
    \A b \in TypingWindows :
        /\ Cardinality(CheckpointRequests(b)) <= 1
        /\ Cardinality(BatchAlerts(b)) <= 1

\* the window has been evaluated by a request of the analyze route
WindowEvaluated(b) == \E r \in CheckpointRequests(b) : r.pc = "done"

\* C20: every window whose end index the user's interaction count reaches or
\* passes is eventually evaluated by the analyze route.
C20_PassedWindowEventuallyEvaluated ==
    <>[](\A b \in TypingWindows :
            Cardinality(typing_analyses) >= b.end => WindowEvaluated(b))


\* the start-th through end-th oldest analyses of the store, oldest first
WindowAnalyses(b) ==
    [i \in 1..(b.end - b.start + 1) |->
        CHOOSE a \in typing_analyses :
            Cardinality({x \in typing_analyses : x.created_at <= a.created_at})
                = b.start + i - 1]

\* the result is the one of the window's own analyses
EvaluatesWindow(result, b) ==
    /\ "is_fake" \in DOMAIN result
    /\ result.messages_analyzed = b.end - b.start + 1
    /\ result.features = _aggregate_typing_features(WindowAnalyses(b))
    /\ result.fake_score =
           _detect_fake_typing_patterns(_aggregate_typing_features(WindowAnalyses(b)))

\* the batch results the analyze route and the status route returned for b
ReturnedResults(b) ==
    {Val(Val(r.response).batch_analysis) :
        r \in {x \in CheckpointRequests(b) : x.pc = "done"}}
    \cup (IF resp.route = "typing_batch_status"
          THEN {resp.body.batches[i] :
                  i \in {j \in DOMAIN typing_batches :
                            /\ typing_batches[j] = b
                            /\ "is_fake" \in DOMAIN resp.body.batches[j]}}
          ELSE {})

TypingDetectDone == call.op = "_detect_fake_typing_patterns" /\ call.done

VoiceDetectDone == call.op = "_detect_fake_voice_patterns" /\ call.done

\* the rules of a batch: whether the condition holds, and the bonus
TypingRules(f) ==
    {[rule |-> 1, holds |-> f.speed_consistency > 900, bonus |-> 300],
     [rule |-> 2, holds |-> f.timing_consistency > 850, bonus |-> 250],
     [rule |-> 3, holds |-> f.avg_error_rate < 10, bonus |-> 150],
     [rule |-> 4, holds |-> f.avg_pause_duration > 0 /\ f.timing_std < 100,
      bonus |-> 100],
     [rule |-> 5, holds |-> f.timing_variance < 10, bonus |-> 200]}

VoiceRules(f) ==
    {[rule |-> 1, holds |-> f.pitch_consistency > 900, bonus |-> 300],
     [rule |-> 2, holds |-> f.energy_consistency > 850, bonus |-> 250],
     [rule |-> 3, holds |-> f.pitch_variance < 10, bonus |-> 200],
     [rule |-> 4, holds |-> f.avg_fake_confidence > 500, bonus |-> 250]}

RECURSIVE BonusSum(_)
BonusSum(rules) ==
    IF rules = {} THEN 0
    ELSE LET r == CHOOSE x \in rules : TRUE
         IN  (IF r.holds THEN r.bonus ELSE 0) + BonusSum(rules \ {r})

Clamped(x) == IF x < 0 THEN 0 ELSE IF x > 1000 THEN 1000 ELSE x

\* C22: the batch fake score is the sum of the bonuses of exactly the rules
\* whose condition holds, clamped to [0,1], for typing and for voice, and the
\* batch is_fake exactly when the score is at least 0.6.
C22_ScoreIsSumOfFiredBonuses ==
    /\ TypingDetectDone =>
           /\ call.result.fake_score =
                  Clamped(BonusSum(TypingRules(call.args.features)))
           /\ call.result.is_fake <=> call.result.fake_score >= 600
    /\ VoiceDetectDone =>
           /\ call.result.fake_score =
                  Clamped(BonusSum(VoiceRules(call.args.features)))
           /\ call.result.is_fake <=> call.result.fake_score >= 600

\* a typing batch in which rules 1, 3 and 5 hold, rule 4 fails only for its
\* pause condition, and the score 0.65 makes it fake
C22_Witness ==
    /\ TypingDetectDone
    /\ {r.rule : r \in {x \in TypingRules(call.args.features) : x.holds}} = {1, 3, 5}
    /\ call.args.features.timing_std < 100
    /\ call.result.fake_score = 650
    /\ call.result.is_fake

\* the four conditions of the example: speed_consistency > 0.9,
\* timing_consistency > 0.85, avg_error_rate < 0.01, timing_variance < 0.01
ExampleConditions(f) ==
    /\ f.speed_consistency > 900
    /\ f.timing_consistency > 850
    /\ f.avg_error_rate < 10
    /\ f.timing_variance < 10

AllFiveFire ==
    /\ \A r \in TypingRules(call.args.features) : r.holds
    /\ BonusSum(TypingRules(call.args.features)) = 1000
    /\ call.result.fake_score = 1000
    /\ call.result.is_fake

\* C23 as stated: for every typing batch whose features satisfy the four
\* conditions, all five bonuses fire, the sum and the score are 1.0 and
\* is_fake is true.
C23_FourConditionsFireAllFive ==
    (TypingDetectDone /\ ExampleConditions(call.args.features)) => AllFiveFire

\* C23, amended: for every typing batch whose features satisfy the four
\* conditions and whose avg_pause_duration is above 0, all five bonuses fire,
\* the sum and the score are 1.0 and is_fake is true.
C23_FourConditionsAndPauseFireAllFive ==
    (/\ TypingDetectDone
     /\ ExampleConditions(call.args.features)
     /\ call.args.features.avg_pause_duration > 0) => AllFiveFire

\* the example's features with a pause above 0
C23_Witness ==
    /\ TypingDetectDone
    /\ call.args.features.speed_consistency = 950
    /\ call.args.features.timing_consistency = 900
    /\ call.args.features.avg_error_rate = 0
    /\ call.args.features.timing_variance = 0
    /\ call.args.features.avg_pause_duration > 0
    /\ call.result.fake_score = 1000

(***************************************************************************)
(* Properties of the batch status (SpecBatch)                              *)
(***************************************************************************)
StatusReturned == resp.route = "typing_batch_status"

\* the windows the returned status found beyond the count, and the others
PendingWindows ==
    {i \in DOMAIN typing_batches : typing_batches[i].end > resp.body.total_count}

ReadyWindows == DOMAIN typing_batches \ PendingWindows

\* a structured pending entry without verdict and without error
PendingEntry(i, still_required) ==
    /\ DOMAIN resp.body.batches[i] =
           {"batch_name", "status", "current_count", "required_count"}
    /\ resp.body.batches[i].batch_name = typing_batches[i].name
    /\ resp.body.batches[i].status = "pending"
    /\ resp.body.batches[i].current_count = resp.body.total_count
    /\ resp.body.batches[i].required_count = still_required

\* the overall assessment counts the ready windows only
AssessmentOverReady ==
    /\ resp.body.overall_assessment.batches_analyzed = Cardinality(ReadyWindows)
    /\ resp.body.overall_assessment.avg_fake_score =
           IF ReadyWindows = {} THEN 0
           ELSE SumSeq([k \in 1..Cardinality(ReadyWindows) |->
                           resp.body.batches[k].fake_score])
                    \div Cardinality(ReadyWindows)
    /\ ReadyWindows = {} => ~resp.body.overall_assessment.is_fake

\* C24 as stated: a window beyond the count is reported as a pending entry
\* with the current count and the count still required (end - count), without
\* is_fake or fake_score; it creates no alert and is left out of the overall
\* assessment.
C24_PendingCarriesRemainingCount ==
    /\ [](StatusReturned =>
            /\ \A i \in PendingWindows :
                   PendingEntry(i, typing_batches[i].end - resp.body.total_count)
            /\ AssessmentOverReady)
    /\ [][GetTypingBatchStatus => alerts' = alerts]_vars

\* C24, amended: a window beyond the count is reported as a pending entry
\* with the current count and the count the window requires (its end index),
\* without is_fake or fake_score; it creates no alert and is left out of the
\* overall assessment.
C24_PendingCarriesRequiredCount ==
    /\ [](StatusReturned =>
            /\ \A i \in PendingWindows : PendingEntry(i, typing_batches[i].end)
            /\ AssessmentOverReady)
    /\ [][GetTypingBatchStatus => alerts' = alerts]_vars

\* a status with the first window evaluated as fake and the others pending
C24_Witness ==
    /\ StatusReturned
    /\ resp.body.total_count >= 5
    /\ ReadyWindows = {1}
    /\ resp.body.batches[1].is_fake
    /\ resp.body.batches[2].status = "pending"
    /\ resp.body.overall_assessment.batches_analyzed = 1
    /\ resp.body.overall_assessment.is_fake

(***************************************************************************)
(* Properties of the text features (Spec)                                  *)
(***************************************************************************)
TextFeaturesDone == call.op = "extract_text_features" /\ call.done

\* the positions of the transcript at which a token starts
TokenStarts(text) ==
    {i \in DOMAIN text :
        /\ IsWordChar(Lower(text[i]))
        /\ i = 1 \/ ~IsWordChar(Lower(text[i - 1]))}

\* the lower-cased token that starts at position i
TokenAt(text, i) ==
    LET last == CHOOSE j \in i..Len(text) :
                    /\ \A k \in i..j : IsWordChar(Lower(text[k]))
                    /\ j = Len(text) \/ ~IsWordChar(Lower(text[j + 1]))
    IN  [k \in 1..(last - i + 1) |-> Lower(text[i + k - 1])]

\* a token is nonsense: longer than 20, less than half alphabetic, or four
\* equal characters in a row
NonsenseToken(t) ==
    \/ Len(t) > 20
    \/ 2 * Cardinality({k \in DOMAIN t : t[k] \in Letters}) < Len(t)
    \/ \E k \in 1..(Len(t) - 3) : {t[k], t[k + 1], t[k + 2], t[k + 3]} = {t[k]}

\* C25: extract_text_features returns, for a transcript with n >= 1 tokens,
\* token_count = n, nonsense_ratio = nonsense occurrences / n,
\* unique_word_ratio = distinct tokens / n and the joke and abuse counts per
\* occurrence, every ratio within [0,1]; for a transcript without tokens it
\* returns 0, 1.0, 0.0, zero counts and empty sets.
C25_TextFeaturesOfTokens ==
    TextFeaturesDone =>
        LET text == call.args.transcript
            starts == TokenStarts(text)
            n == Cardinality(starts)
            f == call.result
        IN  /\ f.token_count = n
            /\ f.nonsense_ratio \in 0..1000
            /\ f.unique_word_ratio \in 0..1000
            /\ n >= 1 =>
                /\ f.nonsense_ratio =
                       (1000 * Cardinality({i \in starts :
                                               NonsenseToken(TokenAt(text, i))}))
                           \div n
                /\ f.unique_word_ratio =
                       (1000 * Cardinality({TokenAt(text, i) : i \in starts}))
                           \div n
                /\ f.joke_word_count =
                       Cardinality({i \in starts : TokenAt(text, i) \in joke_words})
                /\ f.abuse_word_count =
                       Cardinality({i \in starts : TokenAt(text, i) \in abuse_words})
            /\ n = 0 =>
                /\ f.nonsense_ratio = 1000
                /\ f.unique_word_ratio = 0
                /\ f.joke_word_count = 0 /\ f.abuse_word_count = 0
                /\ f.suspicious_words = {} /\ f.nonsense_words = {}
                /\ f.joke_words_found = {} /\ f.abuse_words_found = {}

\* a transcript in which the same nonsense token occurs twice
C25_Witness ==
    /\ TextFeaturesDone
    /\ call.result.token_count = 2
    /\ call.result.nonsense_ratio = 1000
    /\ call.result.unique_word_ratio = 500

(***************************************************************************)
(* Properties of the voice consistency signals (Spec)                      *)
(***************************************************************************)
\* the threshold of each signal whose score is computed from a coefficient
\* of variation
CvThreshold ==
    [op \in {"_analyze_pitch_consistency", "_analyze_energy_patterns",
             "_analyze_spectral_characteristics",
             "_analyze_zero_crossing_rate"} |->
        CASE op = "_analyze_pitch_consistency" -> pitch_consistency_threshold
          [] op = "_analyze_energy_patterns" -> energy_flatness_threshold
          [] op = "_analyze_spectral_characteristics" -> spectral_centroid_threshold
          [] OTHER -> zero_crossing_threshold]

\* one of the four signals has been scored from a coefficient of variation
CvSignalScored ==
    /\ call.op \in DOMAIN CvThreshold
    /\ call.done
    /\ call.op # "_analyze_spectral_characteristics" => call.args.n >= 2

\* the score is 1.0 at CV = 0 and falls linearly below the threshold
C26_LinearBelowThreshold ==
    CvSignalScored /\ call.result.variation < CvThreshold[call.op] =>
        call.result.bot_score =
            1000 - (call.result.variation * 1000) \div CvThreshold[call.op]

\* C26: for each CV-based voice signal the bot_score is 1.0 at CV = 0,
\* decreases linearly as the CV rises towards the threshold, and for every CV
\* at or above the threshold is a residual that is never exactly 0.
C26_ResidualNeverZero ==
    /\ C26_LinearBelowThreshold
    /\ CvSignalScored /\ call.result.variation >= CvThreshold[call.op] =>
           call.result.bot_score > 0

(***************************************************************************)
(* Properties of the crisis safety check (SpecPhq9)                        *)
(***************************************************************************)
\* the last response answers a message posted to /chat that holds a crisis
\* keyword
CrisisMessageAnswered ==
    /\ resp.route = "chat"
    /\ resp.status = 200
    /\ CrisisDetected[resp.request.answer]

\* C27: every message posted to /chat that holds a crisis keyword is answered
\* with the crisis response, is_crisis and needs_escalation true, and an
\* alert for an authenticated user, whatever the state of the session.
C27_CrisisAlwaysAnswered ==
    CrisisMessageAnswered =>
        /\ resp.intent = "crisis"
        /\ resp.is_crisis
        /\ resp.needs_escalation
        /\ resp.request.user # Anonymous =>
               \E i \in DOMAIN alerts :
                   /\ alerts[i].alert_type = "crisis"
                   /\ alerts[i].message = resp.request.answer

(***************************************************************************)
(* SpecPhq9Concurrent: /phq9/answer requests of the owner on one PHQ-9     *)
(* session, served by workers that share the store.  A request reads the   *)
(* session (get_session_by_id), computes on the copy it read, and writes   *)
(* with update_session; nothing ties the two store operations together.    *)
(* A request is [id, answer, pc, session, status]: pc is "read" between    *)
(* its two store operations and "done" once it has responded.              *)
(***************************************************************************)
\* a session in which questions 1 to 7 were answered and question 8 is
\* awaited
SessionAwaitingEighth ==
    [NewPhq9Session EXCEPT
        !.phq9_answers = [q \in 1..7 |-> 1],
        !.phq9_current_question = 8]

\* the answers submitted: "0", " 3 " and the malformed "7"
ConcurrentAnswers == {<<"0">>, <<" ", "3", " ">>, <<"7">>}

\* get_session_by_id and the checks before the answer is recorded
ReadPhq9Session ==
    /\ Cardinality(requests) < MaxAnswerRequests
    /\ Cardinality(InFlight) < MaxConcurrent
    /\ \E raw \in ConcurrentAnswers :
        LET id == Cardinality(requests) + 1
            session == Val(phq9_session)
            Reject(code) ==
                /\ requests' = requests \cup
                       {[id |-> id, answer |-> raw, pc |-> "done",
                         session |-> session, status |-> code]}
                /\ resp' = [route |-> "answer_phq9_question",
                            request |-> [user |-> Owner, answer |-> raw],
                            status |-> code]
        IN  IF session.user_id # Owner THEN Reject(403)
            ELSE IF session.session_type # "phq9" THEN Reject(400)
            ELSE IF session.phq9_current_question > 9 THEN Reject(400)
            ELSE IF IsNone(ParsedAnswers[raw]) THEN Reject(400)
            ELSE /\ requests' = requests \cup
                        {[id |-> id, answer |-> raw, pc |-> "read",
                          session |-> session, status |-> 0]}
                 /\ resp' = resp
    /\ UNCHANGED <<call, sessions, typing_analyses, voice_analyses,
                   mood_checkins, digital_twin, now, phq9_session, alerts>>

\* answers[current_question] = answer_score, on the copy the request read
WrittenAnswers(r) ==
    Put(r.session.phq9_answers, r.session.phq9_current_question,
        Val(ParsedAnswers[r.answer]))

\* update_session (and create_alert) with what the request computed
UpdatePhq9Session ==
    \E r \in InFlight :
        LET current_question == r.session.phq9_current_question
            answers == WrittenAnswers(r)
            Respond(code, complete, num) ==
                /\ requests' = (requests \ {r}) \cup
                       {[r EXCEPT !.pc = "done", !.status = code]}
                /\ resp' = [route |-> "answer_phq9_question",
                            request |-> [user |-> Owner, answer |-> r.answer],
                            status |-> code, question_num |-> num,
                            is_complete |-> complete]
        IN  /\ r.pc = "read"
            /\ IF is_complete(answers) /\ Raised(calculate_score(answers))
               THEN /\ Respond(500, FALSE, current_question)
                    /\ UNCHANGED <<phq9_session, alerts>>
               ELSE IF is_complete(answers)
               THEN /\ phq9_session' =
                           Some(CompletedSession(Val(phq9_session), answers))
                    /\ alerts' = AlertsAfterCompletion(Owner, Val(phq9_session),
                                                       answers)
                    /\ Respond(200, TRUE, 9)
               ELSE /\ phq9_session' =
                           Some([Val(phq9_session) EXCEPT
                                   !.phq9_answers = answers,
                                   !.phq9_current_question =
                                       Val(get_next_question(current_question))])
                    /\ alerts' = alerts
                    /\ Respond(200, FALSE,
                               Val(get_next_question(current_question)))
    /\ UNCHANGED <<call, sessions, typing_analyses, voice_analyses,
                   mood_checkins, digital_twin, now>>

\* a new session, or one that awaits its eighth answer
InitPhq9Concurrent ==
    /\ call = [op |-> "none", done |-> TRUE]
    /\ sessions = {}
    /\ typing_analyses = {}
    /\ voice_analyses = {}
    /\ mood_checkins = {}
    /\ digital_twin = None
    /\ now = 0
    /\ resp = [route |-> "none"]
    /\ phq9_session \in {Some(NewPhq9Session), Some(SessionAwaitingEighth)}
    /\ alerts = <<>>
    /\ requests = {}

NextPhq9Concurrent ==
    \/ ReadPhq9Session
    \/ UpdatePhq9Session

SpecPhq9Concurrent == InitPhq9Concurrent /\ [][NextPhq9Concurrent]_vars

(***************************************************************************)
(* Properties of concurrent answers (SpecPhq9Concurrent)                   *)
(***************************************************************************)
\* the requests whose answer was accepted
AcceptedAnswers == {r \in requests : r.pc = "done" /\ r.status = 200}

\* the question the session awaited when the first answer was accepted
StartingQuestion ==
    CHOOSE q \in 1..9 :
        /\ \E r \in AcceptedAnswers : r.session.phq9_current_question = q
        /\ \A r \in AcceptedAnswers : r.session.phq9_current_question >= q

\* C28: once the requests have responded, n accepted answers
\* (n <= 9 - starting question + 1) have added n answers to the session and
\* advanced current_question by exactly n, whatever the order of the
\* requests' read and update steps.
C28_AcceptedAnswersAllRecorded ==
    LET n == Cardinality(AcceptedAnswers)
    IN  (InFlight = {} /\ n >= 1 /\ n <= 9 - StartingQuestion + 1) =>
            /\ Cardinality(DOMAIN Phq9Doc.phq9_answers)
                   = StartingQuestion - 1 + n
            /\ StartingQuestion + n <= 9 =>
                   Phq9Doc.phq9_current_question = StartingQuestion + n
            /\ StartingQuestion + n = 10 => Phq9Completed

(***************************************************************************)
(* Properties of the voice analyze route (SpecTwin)                        *)
(***************************************************************************)
\* the last response answers a voice analyze request in a supported language
VoiceRequestAnswered ==
    /\ resp.route = "analyze_voice"
    /\ LanguageLower[resp.request.language] \in valid_languages

\* C29: a voice analyze request records its analysis and returns a response,
\* with a batch result exactly when it brought the count of voice analyses to
\* the end of a window (5, 20 or 35); no request fails after its analysis has
\* been persisted.
C29_VoiceRequestReturnsResponse ==
    VoiceRequestAnswered =>
        /\ resp.status = 200
        /\ resp.batch_checked <=> Cardinality(voice_analyses) \in {5, 20, 35}

(***************************************************************************)
(* Properties of the reported trend (Spec)                                 *)
(***************************************************************************)
\* C30: a trend is reported exactly when one of the 5 most recent sessions
\* has a depression score and a session older than those 5 has one; no trend
\* is reported for 5 or fewer sessions, and the declining-trend risk factor
\* is listed only for 6 or more sessions.
C30_TrendNeedsScoresOnBothSides ==
    TrendDone =>
        /\ TrendComputed <=> (RecentScored # {} /\ EarlierScored # {})
        /\ Len(call.args.sessions) <= 5 => ~TrendComputed
        /\ DecliningListed => Len(call.args.sessions) >= 6

\* six sessions handed in oldest first, of which only the oldest (0.3) and
\* the latest (0.8) are scored: the trend is reported and is declining
C30_Witness ==
    /\ TrendDone
    /\ Len(call.args.sessions) = 6
    /\ call.args.sessions[1].start_time = 1
    /\ call.args.sessions[1].depression_score = Some(300)
    /\ call.args.sessions[6].depression_score = Some(800)
    /\ \A i \in 2..5 : IsNone(call.args.sessions[i].depression_score)
    /\ TrendComputed
    /\ DecliningListed
====
